---- MODULE Spec2Model ----
(***************************************************************************)
(* A model of the RADON engine of witnet-rust: the reducers                *)
(* (rad/src/reducers/mod.rs) and the Array operators                       *)
(* (rad/src/operators/array.rs), with the script interpreter, the value    *)
(* kinds and the arithmetic reducers they call.                            *)
(***************************************************************************)
EXTENDS Integers, Sequences, FiniteSets, TLC

VARIABLES input, context, call, output, session, app

vars == <<input, context, call, output, session, app>>

(***************************************************************************)
(* Bounds of the model.                                                    *)
(***************************************************************************)
\* Longest input array.
MaxLen == 3

(***************************************************************************)
(* Values (RadonTypes).  A value is a record of its kind and its payload;  *)
(* the payload of a Float is the exact rational <<numerator, denominator>> *)
(* in lowest terms, of Bytes a sequence of bytes, of an Array a sequence   *)
(* of values.                                                              *)
(***************************************************************************)
RECURSIVE GCD(_, _)
GCD(a, b) == IF b = 0 THEN a ELSE GCD(b, a % b)

Abs(n) == IF n < 0 THEN -n ELSE n

\* The rational n/d (d > 0) in lowest terms.
Rat(n, d) ==
    LET g == GCD(Abs(n), d) IN
    IF g = 0 THEN <<0, 1>> ELSE <<n \div g, d \div g>>

RatAdd(p, q) == Rat(p[1] * q[2] + q[1] * p[2], p[2] * q[2])
RatSub(p, q) == Rat(p[1] * q[2] - q[1] * p[2], p[2] * q[2])
RatMul(p, q) == Rat(p[1] * q[1], p[2] * q[2])
RatDivInt(p, n) == Rat(p[1], p[2] * n)
RatLeq(p, q) == p[1] * q[2] <= q[1] * p[2]

RadonBoolean(b) == [kind |-> "Boolean", b |-> b]
RadonInteger(n) == [kind |-> "Integer", n |-> n]
RadonFloat(n, d) == [kind |-> "Float", q |-> Rat(n, d)]
RadonString(s) == [kind |-> "String", s |-> s]
RadonBytes(bs) == [kind |-> "Bytes", bytes |-> bs]
RadonArray(items) == [kind |-> "Array", items |-> items]

\* Result<RadonTypes, RadError>, and the abort of the process by a panic.
Ok(value) == [ok |-> TRUE, v |-> value]
Err(error) == [ok |-> FALSE, err |-> error]
Panic == [panic |-> TRUE]

\* No operator has run yet.
None == [none |-> TRUE]

IsOk(r) == DOMAIN r = {"ok", "v"}
IsErr(r) == DOMAIN r = {"ok", "err"}
IsPanic(r) == DOMAIN r = {"panic"}

\* Option::unwrap of slice::first: a panic on the empty slice.
first_unwrap(value) == IF Len(value) = 0 THEN Panic ELSE Ok(value[1])

(***************************************************************************)
(* RadError variants returned by the reducers and the Array operators.     *)
(***************************************************************************)
UnsupportedReducer(array, reducer) ==
    [error |-> "UnsupportedReducer", array |-> array, reducer |-> reducer]

UnsupportedOpNonHomogeneous(operator) ==
    [error |-> "UnsupportedOpNonHomogeneous", operator |-> operator]

ArrayFilterWrongSubscript(value) ==
    [error |-> "ArrayFilterWrongSubscript", value |-> value]

UnsupportedOperator(kind, operator) ==
    [error |-> "UnsupportedOperator", input_type |-> kind, operator |-> operator]

WrongArguments(kind, operator, args) ==
    [error |-> "WrongArguments", input_type |-> kind, operator |-> operator,
     args |-> args]

ModeTie(values) == [error |-> "ModeTie", values |-> values]

SourceScriptNotRADON(packed_call) ==
    [error |-> "SourceScriptNotRADON", call |-> packed_call]

(***************************************************************************)
(* RadonReducers: the reducer codes and their Display form.                *)
(***************************************************************************)
Mode == 2
AverageMean == 3
AverageMedian == 5
DeviationStandard == 7
HashConcatenate == 11
Unwrap == 12
Min == 0
Max == 1
AverageMeanWeighted == 4
AverageMedianWeighted == 6
DeviationAverageAbsolute == 8
DeviationMedianAbsolute == 9
DeviationMaximumAbsolute == 10

RadonReducers ==
    {Mode, AverageMean, AverageMedian, DeviationStandard, HashConcatenate,
     Unwrap, Min, Max, AverageMeanWeighted, AverageMedianWeighted,
     DeviationAverageAbsolute, DeviationMedianAbsolute,
     DeviationMaximumAbsolute}

NotImplementedReducers ==
    {Min, Max, AverageMeanWeighted, AverageMedianWeighted,
     DeviationAverageAbsolute, DeviationMedianAbsolute,
     DeviationMaximumAbsolute}

\* fmt::Display for RadonReducers: "RadonReducers::{:?}".
reducer_to_string(reducer_code) ==
    CASE reducer_code = Mode -> "RadonReducers::Mode"
      [] reducer_code = AverageMean -> "RadonReducers::AverageMean"
      [] reducer_code = AverageMedian -> "RadonReducers::AverageMedian"
      [] reducer_code = DeviationStandard -> "RadonReducers::DeviationStandard"
      [] reducer_code = HashConcatenate -> "RadonReducers::HashConcatenate"
      [] reducer_code = Unwrap -> "RadonReducers::Unwrap"
      [] reducer_code = Min -> "RadonReducers::Min"
      [] reducer_code = Max -> "RadonReducers::Max"
      [] reducer_code = AverageMeanWeighted -> "RadonReducers::AverageMeanWeighted"
      [] reducer_code = AverageMedianWeighted -> "RadonReducers::AverageMedianWeighted"
      [] reducer_code = DeviationAverageAbsolute -> "RadonReducers::DeviationAverageAbsolute"
      [] reducer_code = DeviationMedianAbsolute -> "RadonReducers::DeviationMedianAbsolute"
      [] reducer_code = DeviationMaximumAbsolute -> "RadonReducers::DeviationMaximumAbsolute"

(***************************************************************************)
(* ReportContext: active_wips is an Option of the set of active feature    *)
(* flags.                                                                  *)
(***************************************************************************)
WipNames == {"wip0017", "wip0019"}

NoActiveWips == [some |-> FALSE, wips |-> {}]
SomeActiveWips(wips) == [some |-> TRUE, wips |-> wips]

\* ReportContext::default().
DefaultContext == [active_wips |-> NoActiveWips]

wip0017(active_wips) == "wip0017" \in active_wips.wips
wip0019(active_wips) == "wip0019" \in active_wips.wips

(***************************************************************************)
(* RadonArray::is_homogeneous: the array is not empty and every element    *)
(* has the kind of the first one.                                          *)
(***************************************************************************)
is_homogeneous(value) ==
    /\ Len(value) > 0
    /\ \A i \in 1..Len(value) : value[i].kind = value[1].kind

(***************************************************************************)
(* The arithmetic reducers.  Each takes the elements of an array that is   *)
(* homogeneous or empty.  An empty array has no mean, mode, median or      *)
(* deviation: these return UnsupportedReducer; the concatenation of no     *)
(* bytes is the empty byte string, which hash_concatenate hashes.          *)
(***************************************************************************)
\* A numeric payload as a rational.
AsRat(item) == IF item.kind = "Integer" THEN <<item.n, 1>> ELSE item.q

RECURSIVE RatSum(_)
RatSum(value) ==
    IF Len(value) = 0 THEN <<0, 1>>
    ELSE RatAdd(AsRat(value[1]), RatSum(Tail(value)))

\* The integer nearest to the rational q, a tie going to the even one.
RoundHalfEven(q) ==
    LET lo == q[1] \div q[2]
        r == q[1] % q[2]
    IN  IF 2 * r < q[2] THEN lo
        ELSE IF 2 * r > q[2] THEN lo + 1
        ELSE IF lo % 2 = 0 THEN lo ELSE lo + 1

\* average::mean with its MeanReturnPolicy.
mean(value, return_policy) ==
    IF Len(value) = 0
    THEN Err(UnsupportedReducer(value, reducer_to_string(AverageMean)))
    ELSE LET q == RatDivInt(RatSum(value), Len(value)) IN
         CASE value[1].kind = "Float" -> Ok(RadonFloat(q[1], q[2]))
           [] value[1].kind = "Integer" ->
                IF return_policy = "RoundToInteger"
                THEN Ok(RadonInteger(RoundHalfEven(q)))
                ELSE Ok(RadonFloat(q[1], q[2]))
           [] OTHER ->
                Err(UnsupportedReducer(value, reducer_to_string(AverageMean)))

\* How many elements of value equal item.
Occurrences(value, item) ==
    Cardinality({i \in 1..Len(value) : value[i] = item})

\* mode::mode: the most frequent element, ModeTie when it is not unique.
mode(value) ==
    IF Len(value) = 0
    THEN Err(UnsupportedReducer(value, reducer_to_string(Mode)))
    ELSE LET items == {value[i] : i \in 1..Len(value)}
             best == {x \in items :
                        \A y \in items :
                            Occurrences(value, y) <= Occurrences(value, x)}
         IN  IF Cardinality(best) = 1
             THEN Ok(CHOOSE x \in best : TRUE)
             ELSE Err(ModeTie(value))

\* value with item inserted before the first greater element.
RECURSIVE Insert(_, _)
Insert(sorted, item) ==
    IF Len(sorted) = 0 THEN <<item>>
    ELSE IF RatLeq(AsRat(sorted[1]), AsRat(item))
         THEN <<sorted[1]>> \o Insert(Tail(sorted), item)
         ELSE <<item>> \o sorted

RECURSIVE Sorted(_)
Sorted(value) ==
    IF Len(value) = 0 THEN <<>>
    ELSE Insert(Sorted(Tail(value)), value[1])

\* median::median: the middle element of the sorted array, or the mean of
\* the two middle ones.
median(value) ==
    IF Len(value) = 0 \/ value[1].kind \notin {"Integer", "Float"}
    THEN Err(UnsupportedReducer(value, reducer_to_string(AverageMedian)))
    ELSE LET s == Sorted(value)
             n == Len(value)
         IN  IF n % 2 = 1 THEN Ok(s[(n + 1) \div 2])
             ELSE mean(<<s[n \div 2], s[n \div 2 + 1]>>, "RoundToInteger")

\* The largest r with r * r <= n, for lo * lo <= n < hi * hi.
RECURSIVE ISqrt(_, _, _)
ISqrt(n, lo, hi) ==
    IF hi - lo <= 1 THEN lo
    ELSE LET mid == (lo + hi) \div 2 IN
         IF mid * mid <= n THEN ISqrt(n, mid, hi) ELSE ISqrt(n, lo, mid)

\* The square root of the rational q >= 0, cut to two decimal places when
\* it is not rational.
RatSqrt(q) ==
    LET Root(k) == ISqrt(k, 0, IF k < 46340 THEN k + 1 ELSE 46340)
        n == q[1] * q[2]
        r == Root(n)
    IN  IF r * r = n THEN Rat(r, q[2])
        ELSE Rat(Root(n * 100 * 100), q[2] * 100)

RECURSIVE SquaredDeviations(_, _)
SquaredDeviations(value, m) ==
    IF Len(value) = 0 THEN <<0, 1>>
    ELSE LET d == RatSub(AsRat(value[1]), m) IN
         RatAdd(RatMul(d, d), SquaredDeviations(Tail(value), m))

\* deviation::standard: the population standard deviation, a Float.
standard(value) ==
    IF Len(value) = 0 \/ value[1].kind \notin {"Integer", "Float"}
    THEN Err(UnsupportedReducer(value, reducer_to_string(DeviationStandard)))
    ELSE LET m == RatDivInt(RatSum(value), Len(value))
             variance == RatDivInt(SquaredDeviations(value, m), Len(value))
             sd == RatSqrt(variance)
         IN  Ok(RadonFloat(sd[1], sd[2]))

RECURSIVE Concatenation(_)
Concatenation(value) ==
    IF Len(value) = 0 THEN <<>>
    ELSE value[1].bytes \o Concatenation(Tail(value))

RECURSIVE Digest(_, _)
Digest(bytes, acc) ==
    IF Len(bytes) = 0 THEN acc
    ELSE Digest(Tail(bytes), (acc * 31 + bytes[1] + 1) % 256)

\* The digest of a byte string: a two-byte stand-in for the 32 bytes of
\* SHA-256, a function of the bytes and of their number.
Sha256(bytes) == <<Digest(bytes, 7), Len(bytes) % 256>>

\* hash_concatenate::hash_concatenate: the hash of the concatenated Bytes.
hash_concatenate(value) ==
    IF Len(value) > 0 /\ value[1].kind # "Bytes"
    THEN Err(UnsupportedReducer(value, reducer_to_string(HashConcatenate)))
    ELSE Ok(RadonBytes(Sha256(Concatenation(value))))

(***************************************************************************)
(* reducers::unwrap and reducers::reduce.                                  *)
(***************************************************************************)
\* unwrap without the "value.first().is_none()" of its check.
mutant_unwrap_first_unchecked(value) ==
    IF Len(value) > 1
    THEN Err(UnsupportedReducer(value, reducer_to_string(Unwrap)))
    ELSE first_unwrap(value)

unwrap(value) ==
    IF Len(value) = 0 \/ Len(value) > 1
    THEN Err(UnsupportedReducer(value, reducer_to_string(Unwrap)))
    ELSE first_unwrap(value)

\* The arm guards of reduce: Some(active_wips) if active_wips.wip0017(),
\* and the same for wip0019.
mutant_wip0017_or_none(ctx) ==
    ~ctx.active_wips.some \/ wip0017(ctx.active_wips)

active_wips_wip0017(ctx) ==
    ctx.active_wips.some /\ wip0017(ctx.active_wips)

mutant_wip0019_as_wip0017(ctx) ==
    ctx.active_wips.some /\ wip0017(ctx.active_wips)

active_wips_wip0019(ctx) ==
    ctx.active_wips.some /\ wip0019(ctx.active_wips)

\* reduce deciding that a reducer is not implemented before it checks the
\* array.
mutant_reduce_unimplemented_first(value, reducer_code, ctx) ==
    LET error == Err(UnsupportedReducer(value, reducer_to_string(reducer_code)))
    IN  IF reducer_code \in NotImplementedReducers THEN error
        ELSE IF is_homogeneous(value) \/ Len(value) = 0
        THEN CASE reducer_code = AverageMean -> mean(value, "RoundToInteger")
               [] reducer_code = Mode -> mode(value)
               [] reducer_code = DeviationStandard -> standard(value)
               [] reducer_code = AverageMedian ->
                    IF active_wips_wip0017(ctx) THEN median(value) ELSE error
               [] reducer_code = HashConcatenate ->
                    IF active_wips_wip0019(ctx)
                    THEN hash_concatenate(value) ELSE error
               [] reducer_code = Unwrap ->
                    IF active_wips_wip0019(ctx) THEN unwrap(value) ELSE error
               [] OTHER -> error
        ELSE Err(UnsupportedOpNonHomogeneous(reducer_to_string(reducer_code)))

\* reduce with the weighted mean falling into the arm of the mean.
\* reduce rounding the mean of Floats as the return policy names.
mutant_reduce_mean_rounded(value, reducer_code, ctx) ==
    LET error == Err(UnsupportedReducer(value, reducer_to_string(reducer_code)))
        average == mean(value, "RoundToInteger")
    IN  IF is_homogeneous(value) \/ Len(value) = 0
        THEN CASE reducer_code = AverageMean ->
                    IF IsOk(average) /\ average.v.kind = "Float"
                    THEN Ok(RadonInteger(RoundHalfEven(average.v.q)))
                    ELSE average
               [] reducer_code = Mode -> mode(value)
               [] reducer_code = DeviationStandard -> standard(value)
               [] reducer_code = AverageMedian ->
                    IF active_wips_wip0017(ctx) THEN median(value) ELSE error
               [] reducer_code = HashConcatenate ->
                    IF active_wips_wip0019(ctx)
                    THEN hash_concatenate(value) ELSE error
               [] reducer_code = Unwrap ->
                    IF active_wips_wip0019(ctx) THEN unwrap(value) ELSE error
               [] OTHER -> error
        ELSE Err(UnsupportedOpNonHomogeneous(reducer_to_string(reducer_code)))

mutant_reduce_weighted_as_mean(value, reducer_code, ctx) ==
    LET error == Err(UnsupportedReducer(value, reducer_to_string(reducer_code)))
    IN  IF is_homogeneous(value) \/ Len(value) = 0
        THEN CASE reducer_code \in {AverageMean, AverageMeanWeighted} ->
                    mean(value, "RoundToInteger")
               [] reducer_code = Mode -> mode(value)
               [] reducer_code = DeviationStandard -> standard(value)
               [] reducer_code = AverageMedian ->
                    IF active_wips_wip0017(ctx) THEN median(value) ELSE error
               [] reducer_code = HashConcatenate ->
                    IF active_wips_wip0019(ctx)
                    THEN hash_concatenate(value) ELSE error
               [] reducer_code = Unwrap ->
                    IF active_wips_wip0019(ctx) THEN unwrap(value) ELSE error
               [] OTHER -> error
        ELSE Err(UnsupportedOpNonHomogeneous(reducer_to_string(reducer_code)))

\* reduce without the "|| input.value().is_empty()" of its check.
mutant_reduce_empty_rejected(value, reducer_code, ctx) ==
    LET error == Err(UnsupportedReducer(value, reducer_to_string(reducer_code)))
    IN  IF is_homogeneous(value)
        THEN CASE reducer_code = AverageMean -> mean(value, "RoundToInteger")
               [] reducer_code = Mode -> mode(value)
               [] reducer_code = DeviationStandard -> standard(value)
               [] reducer_code = AverageMedian ->
                    IF active_wips_wip0017(ctx) THEN median(value) ELSE error
               [] reducer_code = HashConcatenate ->
                    IF active_wips_wip0019(ctx)
                    THEN hash_concatenate(value) ELSE error
               [] reducer_code = Unwrap ->
                    IF active_wips_wip0019(ctx) THEN unwrap(value) ELSE error
               [] OTHER -> error
        ELSE Err(UnsupportedOpNonHomogeneous(reducer_to_string(reducer_code)))

reduce(value, reducer_code, ctx) ==
    LET error == Err(UnsupportedReducer(value, reducer_to_string(reducer_code)))
    IN  IF is_homogeneous(value) \/ Len(value) = 0
        THEN CASE reducer_code = AverageMean -> mean(value, "RoundToInteger")
               [] reducer_code = Mode -> mode(value)
               [] reducer_code = DeviationStandard -> standard(value)
               [] reducer_code = AverageMedian ->
                    IF active_wips_wip0017(ctx) THEN median(value) ELSE error
               [] reducer_code = HashConcatenate ->
                    IF active_wips_wip0019(ctx)
                    THEN hash_concatenate(value) ELSE error
               [] reducer_code = Unwrap ->
                    IF active_wips_wip0019(ctx) THEN unwrap(value) ELSE error
               [] OTHER -> error
        ELSE Err(UnsupportedOpNonHomogeneous(reducer_to_string(reducer_code)))

\* reduce takes the context as &mut ReportContext: the result of the call
\* and the context as the call leaves it.  The body of reduce only borrows
\* context.active_wips to read it.
mutant_reduce_takes_active_wips(value, reducer_code, ctx) ==
    [result |-> reduce(value, reducer_code, ctx),
     context |-> [ctx EXCEPT !.active_wips = NoActiveWips]]

reduce_in_context(value, reducer_code, ctx) ==
    [result |-> reduce(value, reducer_code, ctx),
     context |-> ctx]

(***************************************************************************)
(* RadonOpCodes: the operator codes, by name.                              *)
(***************************************************************************)
RadonOpCodes ==
    [Fail |-> 255, Identity |-> 0,
     ArrayCount |-> 16, ArrayFilter |-> 17, ArrayMap |-> 26,
     ArrayReduce |-> 27, ArraySort |-> 29,
     BooleanNegate |-> 33,
     BytesAsString |-> 48, BytesHash |-> 49,
     IntegerAbsolute |-> 64, IntegerAsFloat |-> 65, IntegerAsString |-> 66,
     IntegerGreaterThan |-> 67, IntegerLessThan |-> 68,
     IntegerModulo |-> 70, IntegerMultiply |-> 71, IntegerNegate |-> 72,
     IntegerPower |-> 73,
     FloatAbsolute |-> 80, FloatAsString |-> 81, FloatCeiling |-> 82,
     FloatGreaterThan |-> 83, FloatFloor |-> 84, FloatLessThan |-> 85,
     FloatModulo |-> 86, FloatMultiply |-> 87, FloatNegate |-> 88,
     FloatPower |-> 89, FloatRound |-> 91, FloatTruncate |-> 93,
     MapKeys |-> 104,
     StringAsBoolean |-> 112, StringAsFloat |-> 114, StringAsInteger |-> 115,
     StringLength |-> 116, StringMatch |-> 117, StringToLowerCase |-> 125,
     StringToUpperCase |-> 126,
     MixedAsArray |-> 128, MixedAsBoolean |-> 129, MixedAsFloat |-> 130,
     MixedAsInteger |-> 131, MixedAsMap |-> 132, MixedAsString |-> 133,
     Get |-> 160, BooleanAsString |-> 161, IntegerAsMixed |-> 162,
     FloatAsMixed |-> 163, StringAsMixed |-> 164, StringParseJSON |-> 165,
     ArrayGet |-> 166, MapGet |-> 167, MapValues |-> 168]

\* TryFromPrimitive for RadonOpCodes: the opcode of a byte, if it has one.
mutant_op_code_try_from_catch_all(byte) ==
    IF \E name \in DOMAIN RadonOpCodes : RadonOpCodes[name] = byte
    THEN Ok(CHOOSE name \in DOMAIN RadonOpCodes : RadonOpCodes[name] = byte)
    ELSE Ok("Fail")

op_code_try_from(byte) ==
    IF \E name \in DOMAIN RadonOpCodes : RadonOpCodes[name] = byte
    THEN Ok(CHOOSE name \in DOMAIN RadonOpCodes : RadonOpCodes[name] = byte)
    ELSE Err([error |-> "TryFromPrimitiveError", number |-> byte])

(***************************************************************************)
(* CBOR values, the arguments of a call, and the decoding of a call.       *)
(***************************************************************************)
\* Value::Integer holds an i128. An integer is kept as three signed 32-bit
\* parts, each from -2^31 to 2^31 - 1, the integer being
\* top * 2^64 + high * 2^32 + n: top and high are 0 exactly for the
\* integers an i32 holds. The parts hold the integers an i64 holds and
\* integers on both sides of them, not all an i128 holds.
CborWideInteger(top, high, n) ==
    [cbor |-> "Integer", top |-> top, high |-> high, n |-> n]
CborInteger(n) == CborWideInteger(0, 0, n)
CborText(s) == [cbor |-> "Text", s |-> s]
CborArray(elems) == [cbor |-> "Array", elems |-> elems]

\* A RadonCall: the opcode and its optional arguments.
RadonCall(op, has_args, args) == [op |-> op, has_args |-> has_args, args |-> args]

\* script::unpack_radon_call: a call is an opcode alone, or an array of an
\* opcode and its arguments.
unpack_radon_call(packed_call) ==
    CASE packed_call.cbor = "Integer" ->
           LET op == op_code_try_from(packed_call.n) IN
           IF /\ packed_call.top = 0 /\ packed_call.high = 0
              /\ packed_call.n >= 0 /\ IsOk(op)
           THEN Ok(RadonCall(op.v, FALSE, <<>>))
           ELSE Err(SourceScriptNotRADON(packed_call))
      [] packed_call.cbor = "Array" ->
           IF /\ Len(packed_call.elems) > 0
              /\ packed_call.elems[1].cbor = "Integer"
              /\ packed_call.elems[1].top = 0
              /\ packed_call.elems[1].high = 0
              /\ packed_call.elems[1].n >= 0
              /\ IsOk(op_code_try_from(packed_call.elems[1].n))
           THEN Ok(RadonCall(op_code_try_from(packed_call.elems[1].n).v,
                             Len(packed_call.elems) > 1,
                             Tail(packed_call.elems)))
           ELSE Err(SourceScriptNotRADON(packed_call))
      [] OTHER -> Err(SourceScriptNotRADON(packed_call))

(***************************************************************************)
(* operators::array: count, reduce and get.                                *)
(***************************************************************************)
ArrayIndexNotFound(index) == [error |-> "ArrayIndexNotFound", index |-> index]

\* from_value::<i32> keeping the low 32 bits of an integer no i32 holds.
mutant_from_value_i32_wrapping(arg) ==
    IF arg.cbor = "Integer" THEN Ok(arg.n) ELSE Err([error |-> "Decode"])

\* from_value::<i32>: the integer of a CBOR integer that fits 32 bits; an
\* integer outside the i32 range is an error, as is a value of another kind.
from_value_i32(arg) ==
    IF /\ arg.cbor = "Integer"
       /\ arg.top = 0
       /\ arg.high = 0
       /\ arg.n >= -2147483647 - 1
       /\ arg.n <= 2147483647
    THEN Ok(arg.n)
    ELSE Err([error |-> "Decode"])

\* from_value::<i64>: the integer of a CBOR integer that fits 64 bits, as
\* its three parts. high * 2^32 + n is below -2^63 exactly when high is
\* -2^31 and n is negative: without a top part the integer is then too
\* small for an i64, and with a top part of 1 it is one of the 2^31
\* integers up to 2^63 - 1, which an i64 holds. Any other integer with a
\* top part is outside the i64 range.
from_value_i64(arg) ==
    IF /\ arg.cbor = "Integer"
       /\ \/ arg.top = 0 /\ ~(arg.high = -2147483647 - 1 /\ arg.n < 0)
          \/ arg.top = 1 /\ arg.high = -2147483647 - 1 /\ arg.n < 0
    THEN Ok(<<arg.top, arg.high, arg.n>>)
    ELSE Err([error |-> "Decode"])

\* RadonReducers::from_i64: the reducer of a code, if it is one.
reducer_from_i64(reducer_integer) ==
    IF /\ reducer_integer[1] = 0
       /\ reducer_integer[2] = 0
       /\ reducer_integer[3] \in RadonReducers
    THEN Ok(reducer_integer[3])
    ELSE None

\* `index as usize` on an i32: the sign-extended 64 bits of the index, as
\* four 16-bit limbs, the most significant first.
as_usize(index) ==
    IF index >= 0
    THEN <<0, 0, index \div 65536, index % 65536>>
    ELSE LET low == (index + 2147483647) + 1
         IN  <<65535, 65535, 32768 + (low \div 65536), low % 65536>>

\* slice::get: the element at a usize position, None past the end.
slice_get(items, position) ==
    IF /\ position[1] = 0
       /\ position[2] = 0
       /\ position[3] < 32768
       /\ position[3] * 65536 + position[4] < Len(items)
    THEN Ok(items[position[3] * 65536 + position[4] + 1])
    ELSE None

\* operators::array::count.
mutant_count_distinct(value) ==
    RadonInteger(Cardinality({value[i] : i \in 1..Len(value)}))

count(value) == RadonInteger(Len(value))

\* operators::array::reduce: the reducer code decoded from the first
\* argument, then reducers::reduce. The call passes no context.
mutant_array_reduce_defaults_to_mode(value, args) ==
    LET code == IF Len(args) > 0 /\ IsOk(from_value_i64(args[1]))
                THEN reducer_from_i64(from_value_i64(args[1]).v)
                ELSE None
    IN  reduce(value, IF IsOk(code) THEN code.v ELSE Mode, DefaultContext)

array_reduce(value, args) ==
    LET wrong_args == Err(WrongArguments("RadonArray", "Reduce", args))
    IN  IF Len(args) = 0 THEN wrong_args
        ELSE LET reducer_integer == from_value_i64(args[1]) IN
             IF ~IsOk(reducer_integer) THEN wrong_args
             ELSE LET reducer_code == reducer_from_i64(reducer_integer.v) IN
                  IF ~IsOk(reducer_code) THEN wrong_args
                  ELSE reduce(value, reducer_code.v, DefaultContext)

\* operators::array::get: the index decoded from the first argument, cast to
\* usize, then slice::get.
mutant_get_unchecked_index(value, args) ==
    IF Len(args) = 0 \/ ~IsOk(from_value_i32(args[1]))
    THEN Err(WrongArguments("RadonArray", "Reduce", args))
    ELSE LET found == slice_get(value, as_usize(from_value_i32(args[1]).v))
         IN  IF IsOk(found) THEN found ELSE Panic

get(value, args) ==
    LET wrong_args == Err(WrongArguments("RadonArray", "Reduce", args))
    IN  IF Len(args) = 0 THEN wrong_args
        ELSE LET index == from_value_i32(args[1]) IN
             IF ~IsOk(index) THEN wrong_args
             ELSE LET found == slice_get(value, as_usize(index.v)) IN
                  IF IsOk(found) THEN found
                  ELSE Err(ArrayIndexNotFound(index.v))

(***************************************************************************)
(* The operators of each kind and the dispatch of a call on a value.       *)
(***************************************************************************)
\* The opcodes each kind of value has a handler for.
Handlers(kind) ==
    {"Identity"} \cup
    CASE kind = "Array" ->
           {"ArrayCount", "ArrayFilter", "ArrayMap", "ArrayReduce",
            "ArraySort", "ArrayGet", "Get"}
      [] kind = "Boolean" -> {"BooleanNegate", "BooleanAsString"}
      [] kind = "Bytes" -> {"BytesAsString", "BytesHash"}
      [] kind = "Integer" ->
           {"IntegerAbsolute", "IntegerAsFloat", "IntegerAsString",
            "IntegerGreaterThan", "IntegerLessThan", "IntegerModulo",
            "IntegerMultiply", "IntegerNegate", "IntegerPower",
            "IntegerAsMixed"}
      [] kind = "Float" ->
           {"FloatAbsolute", "FloatAsString", "FloatCeiling",
            "FloatGreaterThan", "FloatFloor", "FloatLessThan", "FloatModulo",
            "FloatMultiply", "FloatNegate", "FloatPower", "FloatRound",
            "FloatTruncate", "FloatAsMixed"}
      [] kind = "String" ->
           {"StringAsBoolean", "StringAsFloat", "StringAsInteger",
            "StringLength", "StringMatch", "StringToLowerCase",
            "StringToUpperCase", "StringParseJSON", "StringAsMixed"}
      [] OTHER -> {}

\* fmt::Display for RadonTypes: the name of the type and its value.
radon_to_string(value) ==
    [type |-> CASE value.kind = "Boolean" -> "RadonTypes::RadonBoolean"
                [] value.kind = "Integer" -> "RadonTypes::RadonInteger"
                [] value.kind = "Float" -> "RadonTypes::RadonFloat"
                [] value.kind = "String" -> "RadonTypes::RadonString"
                [] value.kind = "Bytes" -> "RadonTypes::RadonBytes"
                [] value.kind = "Array" -> "RadonTypes::RadonArray",
     of |-> value]

\* operators::identity.
mutant_identity_unsupported(value) ==
    Err(UnsupportedOperator(value.kind, "Identity"))

identity(value) == Ok(value)

\* The one integer argument of a call, if it has exactly that. The
\* RadonInteger of the model holds 32 bits, and so does the argument.
HasIntegerArg(rcall) ==
    /\ rcall.has_args
    /\ Len(rcall.args) = 1
    /\ rcall.args[1].cbor = "Integer"
    /\ rcall.args[1].top = 0
    /\ rcall.args[1].high = 0

\* The handlers of a RadonInteger.
integer_operate(value, rcall) ==
    LET wrong_args ==
          Err(WrongArguments("RadonInteger", rcall.op, rcall.args))
    IN  CASE rcall.op = "IntegerAbsolute" -> Ok(RadonInteger(Abs(value.n)))
          [] rcall.op = "IntegerNegate" -> Ok(RadonInteger(-value.n))
          [] rcall.op = "IntegerAsFloat" -> Ok(RadonFloat(value.n, 1))
          [] rcall.op = "IntegerGreaterThan" ->
               IF HasIntegerArg(rcall)
               THEN Ok(RadonBoolean(value.n > rcall.args[1].n))
               ELSE wrong_args
          [] rcall.op = "IntegerLessThan" ->
               IF HasIntegerArg(rcall)
               THEN Ok(RadonBoolean(value.n < rcall.args[1].n))
               ELSE wrong_args
          [] rcall.op = "IntegerMultiply" ->
               IF HasIntegerArg(rcall)
               THEN Ok(RadonInteger(value.n * rcall.args[1].n))
               ELSE wrong_args

\* The handlers of a RadonBoolean.
boolean_operate(value, rcall) ==
    CASE rcall.op = "BooleanNegate" -> Ok(RadonBoolean(~value.b))

\* The handlers of a RadonArray: the functions of operators::array.
RECURSIVE map(_, _), filter(_, _)
array_operate(value, rcall) ==
    CASE rcall.op = "ArrayCount" -> Ok(count(value.items))
      [] rcall.op = "ArrayFilter" -> filter(value.items, rcall.args)
      [] rcall.op = "ArrayMap" -> map(value.items, rcall.args)
      [] rcall.op = "ArrayReduce" -> array_reduce(value.items, rcall.args)
      [] rcall.op \in {"ArrayGet", "Get"} -> get(value.items, rcall.args)

\* operators::operate: the handler of the value's kind for the opcode, and
\* UnsupportedOperator when the kind has none.
mutant_operate_skips_unsupported(value, rcall) ==
    IF rcall.op \notin Handlers(value.kind)
    THEN Ok(value)
    ELSE CASE rcall.op = "Identity" -> identity(value)
           [] value.kind = "Integer" -> integer_operate(value, rcall)
           [] value.kind = "Boolean" -> boolean_operate(value, rcall)
           [] value.kind = "Array" -> array_operate(value, rcall)

operate(value, rcall) ==
    IF rcall.op \notin Handlers(value.kind)
    THEN Err(UnsupportedOperator(value.kind, rcall.op))
    ELSE CASE rcall.op = "Identity" -> identity(value)
           [] value.kind = "Integer" -> integer_operate(value, rcall)
           [] value.kind = "Boolean" -> boolean_operate(value, rcall)
           [] value.kind = "Array" -> array_operate(value, rcall)

\* script::execute_radon_script: the calls applied left to right, the first
\* error ending the script.
RECURSIVE execute_radon_script(_, _)
execute_radon_script(value, script) ==
    IF Len(script) = 0 THEN Ok(value)
    ELSE LET r == operate(value, script[1]) IN
         IF IsOk(r) THEN execute_radon_script(r.v, Tail(script)) ELSE r

(***************************************************************************)
(* operators::array: map and filter.                                       *)
(***************************************************************************)
\* The first loop of map and of filter: every argument unpacked into a
\* call, the first failure returned.
RECURSIVE unpack_subscript(_, _)
unpack_subscript(args, subscript) ==
    IF Len(args) = 0 THEN Ok(subscript)
    ELSE LET rcall == unpack_radon_call(args[1]) IN
         IF IsOk(rcall)
         THEN unpack_subscript(Tail(args), Append(subscript, rcall.v))
         ELSE rcall

\* The second loop of map, from item i on, with the results so far.
RECURSIVE map_items(_, _, _, _)

\* map putting each result in front of the earlier ones.
mutant_map_items_reversed(value, subscript, i, result) ==
    IF i > Len(value) THEN Ok(RadonArray(result))
    ELSE LET r == execute_radon_script(value[i], subscript) IN
         IF IsOk(r)
         THEN map_items(value, subscript, i + 1, <<r.v>> \o result)
         ELSE r

\* map going on after a failed item and returning the last error.
mutant_map_items_last_error(value, subscript, i, result) ==
    IF i > Len(value) THEN Ok(RadonArray(result))
    ELSE LET r == execute_radon_script(value[i], subscript) IN
         IF IsOk(r)
         THEN map_items(value, subscript, i + 1, Append(result, r.v))
         ELSE LET rest == map_items(value, subscript, i + 1, result) IN
              IF IsOk(rest) THEN r ELSE rest

map_items(value, subscript, i, result) ==
    IF i > Len(value) THEN Ok(RadonArray(result))
    ELSE LET r == execute_radon_script(value[i], subscript) IN
         IF IsOk(r)
         THEN map_items(value, subscript, i + 1, Append(result, r.v))
         ELSE r

map(value, args) ==
    LET subscript == unpack_subscript(args, <<>>) IN
    IF IsOk(subscript) THEN map_items(value, subscript.v, 1, <<>>)
    ELSE subscript

\* The second loop of filter, from item i on, with the items kept so far.
RECURSIVE filter_items(_, _, _, _)

\* filter putting a passing item before the items kept so far.
mutant_filter_items_prepends(value, subscript, i, result) ==
    IF i > Len(value) THEN Ok(RadonArray(result))
    ELSE LET r == execute_radon_script(value[i], subscript) IN
         IF ~IsOk(r) THEN r
         ELSE IF r.v.kind = "Boolean"
              THEN filter_items(value, subscript, i + 1,
                                IF r.v.b THEN <<value[i]>> \o result
                                ELSE result)
              ELSE Err(ArrayFilterWrongSubscript(radon_to_string(r.v)))

\* filter dropping an item whose subscript output is not a Boolean.
mutant_filter_items_lenient(value, subscript, i, result) ==
    IF i > Len(value) THEN Ok(RadonArray(result))
    ELSE LET r == execute_radon_script(value[i], subscript) IN
         IF ~IsOk(r) THEN r
         ELSE filter_items(value, subscript, i + 1,
                           IF r.v.kind = "Boolean" /\ r.v.b
                           THEN Append(result, value[i])
                           ELSE result)

\* filter reporting the item in place of the output of the subscript.
mutant_filter_items_reports_item(value, subscript, i, result) ==
    IF i > Len(value) THEN Ok(RadonArray(result))
    ELSE LET r == execute_radon_script(value[i], subscript) IN
         IF ~IsOk(r) THEN r
         ELSE IF r.v.kind = "Boolean"
              THEN filter_items(value, subscript, i + 1,
                                IF r.v.b THEN Append(result, value[i])
                                ELSE result)
              ELSE Err(ArrayFilterWrongSubscript(radon_to_string(value[i])))

\* filter dropping an item whose subscript fails.
mutant_filter_items_skips_failed(value, subscript, i, result) ==
    IF i > Len(value) THEN Ok(RadonArray(result))
    ELSE LET r == execute_radon_script(value[i], subscript) IN
         IF ~IsOk(r) THEN filter_items(value, subscript, i + 1, result)
         ELSE IF r.v.kind = "Boolean"
              THEN filter_items(value, subscript, i + 1,
                                IF r.v.b THEN Append(result, value[i])
                                ELSE result)
              ELSE Err(ArrayFilterWrongSubscript(radon_to_string(r.v)))

filter_items(value, subscript, i, result) ==
    IF i > Len(value) THEN Ok(RadonArray(result))
    ELSE LET r == execute_radon_script(value[i], subscript) IN
         IF ~IsOk(r) THEN r
         ELSE IF r.v.kind = "Boolean"
              THEN filter_items(value, subscript, i + 1,
                                IF r.v.b THEN Append(result, value[i])
                                ELSE result)
              ELSE Err(ArrayFilterWrongSubscript(radon_to_string(r.v)))

filter(value, args) ==
    LET subscript == unpack_subscript(args, <<>>) IN
    IF IsOk(subscript) THEN filter_items(value, subscript.v, 1, <<>>)
    ELSE subscript

(***************************************************************************)
(* The inputs of the model.                                                *)
(***************************************************************************)
\* The elements of the input arrays.
Items ==
    {RadonInteger(2), RadonInteger(5), RadonInteger(6), RadonFloat(1, 1),
     RadonFloat(2, 1), RadonBoolean(TRUE), RadonBytes(<<1>>)}

\* The input arrays: every sequence of at most MaxLen items.
Arrays == UNION {[1..n -> Items] : n \in 0..MaxLen}

\* A call with one integer argument, packed as [op, arg].
PackedCall(op, arg) == CborArray(<<CborInteger(op), CborInteger(arg)>>)

\* The argument lists given to map and filter.
Subscripts ==
    {<<>>,
     <<CborInteger(RadonOpCodes.Identity)>>,
     <<CborInteger(RadonOpCodes.BooleanNegate)>>,
     <<PackedCall(RadonOpCodes.IntegerGreaterThan, 4)>>,
     <<PackedCall(RadonOpCodes.IntegerMultiply, 4)>>,
     <<PackedCall(RadonOpCodes.IntegerMultiply, 4),
       PackedCall(RadonOpCodes.IntegerGreaterThan, 10)>>,
     <<CborText("wrong")>>}

\* The argument lists given to get: no argument, an argument that is no
\* integer, indices below, inside and past every input array and near
\* the ends of the i32 range, and indices outside the i32 range: the next
\* ones on both sides (2^31 and -2^31 - 1) and further ones (2^32, -2^32
\* and 2^64).
GetArgs ==
    {<<>>, <<CborText("wrong")>>}
    \cup {<<CborInteger(index)>> :
             index \in {-2147483647, -1, 2147483647} \cup 0..MaxLen}
    \cup {<<CborWideInteger(0, 1, -2147483647 - 1)>>,
          <<CborWideInteger(0, -1, 2147483647)>>,
          <<CborWideInteger(0, 1, 0)>>,
          <<CborWideInteger(0, -1, 0)>>,
          <<CborWideInteger(1, 0, 0)>>}

\* The argument lists given to the reduce operator: no argument, an argument
\* that is no integer, integers that are no reducer code (a reducer code
\* plus 2^32 and one plus 2^64, the least and the greatest integer of an
\* i64, and the integers next below and next above them), and every code.
ReduceArgs ==
    {<<>>, <<CborText("wrong")>>, <<CborInteger(-1)>>, <<CborInteger(13)>>,
     <<CborWideInteger(0, 1, 3)>>,
     <<CborWideInteger(1, 0, 3)>>,
     <<CborWideInteger(0, -2147483647 - 1, 0)>>,
     <<CborWideInteger(0, -2147483647 - 1, -1)>>,
     <<CborWideInteger(1, -2147483647 - 1, -1)>>,
     <<CborWideInteger(1, -2147483647 - 1, 0)>>}
    \cup {<<CborInteger(reducer_code)>> : reducer_code \in RadonReducers}

\* The depth of nested subscripts a script may reach.
MaxScriptDepth == 8

\* A value under depth arrays of one element each.
RECURSIVE Nested(_)
Nested(depth) ==
    IF depth = 0 THEN RadonInteger(2)
    ELSE RadonArray(<<Nested(depth - 1)>>)

\* The input array whose one element holds arrays down to MaxScriptDepth.
NestedInput == <<Nested(MaxScriptDepth)>>

\* A call with a subscript, packed as [op, call, ...].
PackedSubscript(op, subscript) == CborArray(<<CborInteger(op)>> \o subscript)

\* The script of depth ArrayMap calls, each the subscript of the one
\* before, around Identity.
RECURSIVE NestedMap(_)
NestedMap(depth) ==
    IF depth = 0 THEN <<CborInteger(RadonOpCodes.Identity)>>
    ELSE <<PackedSubscript(RadonOpCodes.ArrayMap, NestedMap(depth - 1))>>

\* The scripts executed on the input array.
Scripts ==
    {<<CborInteger(RadonOpCodes.Identity)>>,
     <<CborInteger(RadonOpCodes.ArrayCount)>>,
     <<CborInteger(RadonOpCodes.ArrayCount),
       CborInteger(RadonOpCodes.Identity)>>,
     <<CborInteger(RadonOpCodes.ArrayCount),
       CborInteger(RadonOpCodes.ArrayCount),
       CborInteger(RadonOpCodes.Identity)>>,
     <<PackedCall(RadonOpCodes.FloatMultiply, 2)>>,
     <<PackedSubscript(RadonOpCodes.ArrayMap,
                       <<PackedCall(RadonOpCodes.IntegerGreaterThan, 4)>>)>>,
     <<PackedSubscript(RadonOpCodes.ArrayFilter,
                       <<PackedCall(RadonOpCodes.IntegerGreaterThan, 4)>>),
       CborInteger(RadonOpCodes.ArrayCount)>>,
     <<PackedCall(RadonOpCodes.ArrayGet, 0),
       PackedCall(RadonOpCodes.IntegerMultiply, 4)>>,
     <<PackedCall(RadonOpCodes.ArrayReduce, AverageMean)>>,
     <<CborInteger(18)>>,
     NestedMap(MaxScriptDepth + 1)}

\* The values active_wips is set to.
ActiveWipsSets == SUBSET WipNames

NoCall == [op |-> "none", reducer_code |-> -1, args |-> <<>>]

\* No session actor has been started.
NoSession == [status |-> "NotStarted"]

\* No application actor has been started.
NoApp == [running |-> FALSE]

(***************************************************************************)
(* The state machine: an input array and a context are built, and the      *)
(* caller calls the reducers and the Array operators on them, one call at  *)
(* a time.  call is the call whose result the caller holds in output.      *)
(***************************************************************************)
Init ==
    /\ input \in Arrays \cup {NestedInput}
    /\ context = DefaultContext
    /\ call = NoCall
    /\ output = None
    /\ session = NoSession
    /\ app = NoApp

\* context.active_wips = Some(active_wips), between two calls.
SetActiveWips(wips) ==
    /\ call = NoCall
    /\ context.active_wips # SomeActiveWips(wips)
    /\ context' = [context EXCEPT !.active_wips = SomeActiveWips(wips)]
    /\ UNCHANGED <<input, call, output, session, app>>

\* reducers::reduce(input, reducer_code, &mut context).
Reduce(reducer_code) ==
    /\ call = NoCall
    /\ call' = [op |-> "reduce", reducer_code |-> reducer_code, args |-> <<>>]
    /\ LET after == reduce_in_context(input, reducer_code, context) IN
       /\ output' = after.result
       /\ context' = after.context
    /\ UNCHANGED <<input, session, app>>

\* operators::array::map(&input, args).
Map(args) ==
    /\ call = NoCall
    /\ call' = [op |-> "map", reducer_code |-> -1, args |-> args]
    /\ output' = map(input, args)
    /\ UNCHANGED <<input, context, session, app>>

\* operators::array::filter(&input, args).
Filter(args) ==
    /\ call = NoCall
    /\ call' = [op |-> "filter", reducer_code |-> -1, args |-> args]
    /\ output' = filter(input, args)
    /\ UNCHANGED <<input, context, session, app>>

\* The caller has taken the result of the call.
\* The calls below take no context: they are made while the context is the
\* default one.
\* A call of operators::array::count.
Count ==
    /\ call = NoCall
    /\ context = DefaultContext
    /\ call' = [op |-> "count", reducer_code |-> -1, args |-> <<>>]
    /\ output' = Ok(count(input))
    /\ UNCHANGED <<input, context, session, app>>

\* A call of operators::array::get.
Get(args) ==
    /\ call = NoCall
    /\ context = DefaultContext
    /\ call' = [op |-> "get", reducer_code |-> -1, args |-> args]
    /\ output' = get(input, args)
    /\ UNCHANGED <<input, context, session, app>>

\* A call of operators::array::reduce.
ArrayReduce(args) ==
    /\ call = NoCall
    /\ context = DefaultContext
    /\ call' = [op |-> "array_reduce", reducer_code |-> -1, args |-> args]
    /\ output' = array_reduce(input, args)
    /\ UNCHANGED <<input, context, session, app>>

\* The execution of a packed script on the input array.
Execute(args) ==
    /\ call = NoCall
    /\ context = DefaultContext
    /\ call' = [op |-> "execute", reducer_code |-> -1, args |-> args]
    /\ output' =
         LET script == unpack_subscript(args, <<>>) IN
         IF IsOk(script)
         THEN execute_radon_script(RadonArray(input), script.v)
         ELSE script
    /\ UNCHANGED <<input, context, session, app>>

Return ==
    /\ call # NoCall
    /\ call' = NoCall
    /\ output' = None
    /\ UNCHANGED <<input, context, session, app>>

Next ==
    \/ \E wips \in ActiveWipsSets : SetActiveWips(wips)
    \/ \E reducer_code \in RadonReducers : Reduce(reducer_code)
    \/ \E args \in Subscripts : Map(args)
    \/ \E args \in Subscripts : Filter(args)
    \/ Count
    \/ \E args \in GetArgs : Get(args)
    \/ \E args \in ReduceArgs : ArrayReduce(args)
    \/ \E args \in Scripts : Execute(args)
    \/ Return

Spec == Init /\ [][Next]_vars

(***************************************************************************)
(* Properties of reducers::reduce.                                         *)
(***************************************************************************)
\* The last call was reduce with this reducer.
Reduced(reducer_code) ==
    call.op = "reduce" /\ call.reducer_code = reducer_code

\* Two elements of the array are of different kinds.
MixedKinds(value) ==
    \E i, j \in 1..Len(value) : value[i].kind # value[j].kind

\* The array passes the check of reduce: one kind, or no element.
OneKind(value) == ~MixedKinds(value)

\* The UnsupportedReducer error of reduce for the call made.
UnsupportedReducerError ==
    Err(UnsupportedReducer(input, reducer_to_string(call.reducer_code)))

Wip0017Active == context.active_wips.some /\ "wip0017" \in context.active_wips.wips
Wip0019Active == context.active_wips.some /\ "wip0019" \in context.active_wips.wips

\* C1: reduce of an array whose elements are not all of one kind returns
\* UnsupportedOpNonHomogeneous, whatever the reducer code and the active
\* feature flags, and never a value or UnsupportedReducer.
C1_NonHomogeneousRejected ==
    (call.op = "reduce" /\ MixedKinds(input)) =>
        /\ output =
             Err(UnsupportedOpNonHomogeneous(reducer_to_string(call.reducer_code)))
        /\ ~IsOk(output)
        /\ output.err.error # "UnsupportedReducer"

\* C1: an unimplemented reducer, with both flags active, has been run on
\* [Integer, Float] and has returned UnsupportedOpNonHomogeneous.
C1_Witness ==
    /\ Reduced(Min)
    /\ context.active_wips = SomeActiveWips(WipNames)
    /\ input = <<RadonInteger(2), RadonFloat(2, 1)>>
    /\ output = Err(UnsupportedOpNonHomogeneous("RadonReducers::Min"))

\* How many elements of value are at most (at least) item.
AtMost(value, item) ==
    Cardinality({i \in 1..Len(value) : RatLeq(AsRat(value[i]), AsRat(item))})
AtLeast(value, item) ==
    Cardinality({i \in 1..Len(value) : RatLeq(AsRat(item), AsRat(value[i]))})

\* C2: AverageMedian on an array of one kind returns UnsupportedReducer
\* when active_wips is None or wip0017 is not active, and the median when
\* wip0017 is active: for an odd number of Integers or Floats an element
\* with at least half of the elements on each side, Float 2.0 for
\* [1.0, 2.0, 2.0].  The outcome depends on the context through wip0017
\* alone.
C2_MedianGatedByWip0017 ==
    (Reduced(AverageMedian) /\ OneKind(input) /\ Len(input) > 0) =>
        /\ ~Wip0017Active => output = UnsupportedReducerError
        /\ Wip0017Active =>
             /\ output = median(input)
             /\ (input[1].kind \in {"Integer", "Float"} /\ Len(input) % 2 = 1) =>
                  /\ IsOk(output)
                  /\ \E i \in 1..Len(input) : output.v = input[i]
                  /\ 2 * AtMost(input, output.v) > Len(input)
                  /\ 2 * AtLeast(input, output.v) > Len(input)
             /\ input = <<RadonFloat(1, 1), RadonFloat(2, 1), RadonFloat(2, 1)>>
                  => output = Ok(RadonFloat(2, 1))
        /\ \A wips \in ActiveWipsSets :
             ("wip0017" \in wips) = Wip0017Active =>
                 output = reduce(input, AverageMedian,
                                 [active_wips |-> SomeActiveWips(wips)])

\* C2: with wip0017 active the median of [1.0, 2.0, 2.0] has been returned.
C2_Witness ==
    /\ Reduced(AverageMedian)
    /\ Wip0017Active
    /\ input = <<RadonFloat(1, 1), RadonFloat(2, 1), RadonFloat(2, 1)>>
    /\ output = Ok(RadonFloat(2, 1))

\* C3: HashConcatenate and Unwrap on an array of one kind or an empty one
\* return UnsupportedReducer when active_wips is None or wip0019 is not
\* active, wip0017 being active or not; they run only with wip0019 active.
C3_HashAndUnwrapGatedByWip0019 ==
    \A reducer_code \in {HashConcatenate, Unwrap} :
        (Reduced(reducer_code) /\ OneKind(input)) =>
            /\ ~Wip0019Active => output = UnsupportedReducerError
            /\ Wip0019Active =>
                 output = IF reducer_code = Unwrap THEN unwrap(input)
                          ELSE hash_concatenate(input)
            /\ IsOk(output) => Wip0019Active

\* C3: with wip0017 alone active, HashConcatenate of an array of Bytes has
\* returned UnsupportedReducer.
C3_Witness ==
    /\ Reduced(HashConcatenate)
    /\ context.active_wips = SomeActiveWips({"wip0017"})
    /\ input = <<RadonBytes(<<1>>), RadonBytes(<<1>>)>>
    /\ output = Err(UnsupportedReducer(input, "RadonReducers::HashConcatenate"))

\* C4: a reducer that is listed but not implemented returns
\* UnsupportedReducer on every array of one kind and on the empty array,
\* whatever the active feature flags.
C4_NotImplementedUnsupported ==
    (call.op = "reduce" /\ call.reducer_code \in NotImplementedReducers
        /\ OneKind(input)) =>
        output = UnsupportedReducerError

\* C4: AverageMeanWeighted has been run on two Floats with both flags
\* active and has returned UnsupportedReducer.
C4_Witness ==
    /\ Reduced(AverageMeanWeighted)
    /\ context.active_wips = SomeActiveWips(WipNames)
    /\ input = <<RadonFloat(1, 1), RadonFloat(2, 1)>>
    /\ output = Err(UnsupportedReducer(input, "RadonReducers::AverageMeanWeighted"))

\* C5: with wip0019 active, Unwrap returns the element of an array of one
\* element and UnsupportedReducer for an empty array or one of more than
\* one element; unwrap does so on every array and never panics.
C5_UnwrapSingleElement ==
    LET expected ==
          IF Len(input) = 1 THEN Ok(input[1])
          ELSE Err(UnsupportedReducer(input, "RadonReducers::Unwrap"))
    IN  /\ (Reduced(Unwrap) /\ Wip0019Active /\ OneKind(input)) =>
             output = expected
        /\ Reduced(Unwrap) => ~IsPanic(output)
        /\ unwrap(input) = expected

\* C5: with wip0019 active, Unwrap of the empty array has returned
\* UnsupportedReducer.
C5_Witness ==
    /\ Reduced(Unwrap)
    /\ Wip0019Active
    /\ input = <<>>
    /\ output = Err(UnsupportedReducer(<<>>, "RadonReducers::Unwrap"))

\* The result of a reducer on the empty array: the hash of no bytes for
\* HashConcatenate, when it is enabled, and UnsupportedReducer for the
\* reducers that have no value for it.
EmptyArrayResult(reducer_code) ==
    IF reducer_code = HashConcatenate /\ Wip0019Active
    THEN Ok(RadonBytes(Sha256(<<>>)))
    ELSE Err(UnsupportedReducer(<<>>, reducer_to_string(reducer_code)))

\* C6: reduce of the empty array is passed to the reducer and returns its
\* identity where there is one and UnsupportedReducer otherwise, never
\* UnsupportedOpNonHomogeneous.
C6_EmptyArrayPassedThrough ==
    (call.op = "reduce" /\ input = <<>>) =>
        /\ output = EmptyArrayResult(call.reducer_code)
        /\ IsErr(output) => output.err.error # "UnsupportedOpNonHomogeneous"

\* C6: the mean of the empty array has been asked for and
\* UnsupportedReducer returned.
C6_Witness ==
    /\ Reduced(AverageMean)
    /\ input = <<>>
    /\ output = Err(UnsupportedReducer(<<>>, "RadonReducers::AverageMean"))

(***************************************************************************)
(* Properties of operators::array::map and filter.                         *)
(***************************************************************************)
\* The calls the arguments of the last call unpack to, when they all do.
Unpacked == unpack_subscript(call.args, <<>>)

\* The result of the subscript of the last call on item i of the input.
SubscriptOn(i) == execute_radon_script(input[i], Unpacked.v)

\* The subscript gives a value that is not a Boolean for item i.
NotBooleanOn(i) == IsOk(SubscriptOn(i)) /\ SubscriptOn(i).v.kind # "Boolean"

\* The items for which the subscript of the last call gives Boolean(true).
RECURSIVE Passing(_)
Passing(i) ==
    IF i > Len(input) THEN <<>>
    ELSE (IF SubscriptOn(i) = Ok(RadonBoolean(TRUE)) THEN <<input[i]>> ELSE <<>>)
         \o Passing(i + 1)

\* C7: the array filter returns holds exactly the items for which the
\* subscript gives Boolean(true), in their order and unchanged; every
\* other item gave Boolean(false) and is dropped, so the output is never
\* longer than the input.
C7_FilterKeepsPassingItems ==
    (call.op = "filter" /\ IsOk(output)) =>
        /\ IsOk(Unpacked)
        /\ output.v.kind = "Array"
        /\ output.v.items = Passing(1)
        /\ Len(output.v.items) <= Len(input)
        /\ \A i \in 1..Len(input) :
             SubscriptOn(i) \in {Ok(RadonBoolean(TRUE)), Ok(RadonBoolean(FALSE))}

\* C7: [6, 2, 5] has been filtered by [IntegerGreaterThan, 4] into [6, 5]:
\* two different items have passed and kept their order, which is not
\* the ascending one, and the item between them has been dropped.
C7_Witness ==
    /\ call.op = "filter"
    /\ call.args = <<PackedCall(RadonOpCodes.IntegerGreaterThan, 4)>>
    /\ input = <<RadonInteger(6), RadonInteger(2), RadonInteger(5)>>
    /\ output = Ok(RadonArray(<<RadonInteger(6), RadonInteger(5)>>))

\* C8, as claimed: when the subscript gives a value that is not a Boolean
\* for some item, filter fails with ArrayFilterWrongSubscript carrying the
\* value given for the first such item.
C8_Claimed_AnyNonBooleanRejected ==
    (call.op = "filter" /\ IsOk(Unpacked)
        /\ \E i \in 1..Len(input) : NotBooleanOn(i)) =>
        LET k == CHOOSE i \in 1..Len(input) :
                     NotBooleanOn(i) /\ \A j \in 1..(i - 1) : ~NotBooleanOn(j)
        IN  output =
              Err(ArrayFilterWrongSubscript(radon_to_string(SubscriptOn(k).v)))

\* C8, amended: when the subscript gives a value that is not a Boolean for
\* some item and fails with no error on an earlier item, filter fails with
\* ArrayFilterWrongSubscript carrying the value given for the first such
\* item and returns no array, whatever earlier items passed; when it
\* fails on an earlier item, filter returns that error.
C8_FirstNonBooleanRejected ==
    (call.op = "filter" /\ IsOk(Unpacked)
        /\ \E i \in 1..Len(input) : NotBooleanOn(i)) =>
        LET k == CHOOSE i \in 1..Len(input) :
                     NotBooleanOn(i) /\ \A j \in 1..(i - 1) : ~NotBooleanOn(j)
            failed == {j \in 1..(k - 1) : ~IsOk(SubscriptOn(j))}
        IN  /\ ~IsOk(output)
            /\ failed = {} =>
                 output =
                   Err(ArrayFilterWrongSubscript(radon_to_string(SubscriptOn(k).v)))
            /\ failed # {} =>
                 output = SubscriptOn(CHOOSE j \in failed :
                                        \A h \in failed : j <= h)

\* C8: the first item has passed the predicate and the second has given a
\* value that is not a Boolean, and filter has failed with that value.
C8_Witness ==
    /\ call.op = "filter"
    /\ call.args = <<CborInteger(RadonOpCodes.Identity)>>
    /\ input = <<RadonBoolean(TRUE), RadonInteger(6)>>
    /\ output =
         Err(ArrayFilterWrongSubscript(radon_to_string(RadonInteger(6))))

\* The call of the scenario: [Integer 2, Integer 6] filtered by
\* [IntegerMultiply, 4].
FilterByMultiply ==
    /\ call.op = "filter"
    /\ call.args = <<PackedCall(RadonOpCodes.IntegerMultiply, 4)>>
    /\ input = <<RadonInteger(2), RadonInteger(6)>>

\* C9, as claimed: filtering [Integer 2, Integer 6] by [IntegerMultiply, 4]
\* gives an error of kind UnsupportedOperator.
C9_Claimed_UnsupportedOperator ==
    FilterByMultiply =>
        IsErr(output) /\ output.err.error = "UnsupportedOperator"

\* C9, amended: filtering [Integer 2, Integer 6] by [IntegerMultiply, 4]
\* gives the error ArrayFilterWrongSubscript, which says that the output
\* of the subscript was not a Boolean and carries that output,
\* RadonTypes::RadonInteger(8).
C9_FilterByMultiplyWrongSubscript ==
    FilterByMultiply =>
        output = Err([error |-> "ArrayFilterWrongSubscript",
                      value |-> [type |-> "RadonTypes::RadonInteger",
                                 of |-> RadonInteger(8)]])

\* C9: the filter of the scenario has been run and has failed.
C9_Witness ==
    FilterByMultiply /\ IsErr(output)

\* C10: when the subscript succeeds on every item, map returns an array of
\* the length of the input whose i-th element is the result of the
\* subscript on the i-th item; [2, 6] mapped by [IntegerGreaterThan, 4]
\* gives [false, true].
C10_MapAppliesSubscriptToEachItem ==
    (call.op = "map" /\ IsOk(Unpacked)
        /\ \A i \in 1..Len(input) : IsOk(SubscriptOn(i))) =>
        /\ IsOk(output)
        /\ output.v.kind = "Array"
        /\ Len(output.v.items) = Len(input)
        /\ \A i \in 1..Len(input) : output.v.items[i] = SubscriptOn(i).v
        /\ (input = <<RadonInteger(2), RadonInteger(6)>>
              /\ call.args = <<PackedCall(RadonOpCodes.IntegerGreaterThan, 4)>>)
             => output.v.items = <<RadonBoolean(FALSE), RadonBoolean(TRUE)>>

\* C10: [2, 6] has been mapped by [IntegerGreaterThan, 4] into
\* [false, true].
C10_Witness ==
    /\ call.op = "map"
    /\ call.args = <<PackedCall(RadonOpCodes.IntegerGreaterThan, 4)>>
    /\ input = <<RadonInteger(2), RadonInteger(6)>>
    /\ output = Ok(RadonArray(<<RadonBoolean(FALSE), RadonBoolean(TRUE)>>))

(***************************************************************************)
(* The Array operators count, reduce and get.                              *)
(***************************************************************************)
\* The one integer argument of the call, if the call has one first.
FirstArgIsInteger == Len(call.args) > 0 /\ call.args[1].cbor = "Integer"

\* The integer index of the last call selects an element of the input: it
\* is at least 0 and less than the length.
IndexInRange ==
    /\ call.args[1].top = 0
    /\ call.args[1].high = 0
    /\ 0 <= call.args[1].n
    /\ call.args[1].n < Len(input)

\* C11, as claimed: get with an integer index i returns the element at
\* position i when 0 <= i < length, and fails with ArrayIndexNotFound
\* carrying i whenever i is negative or i >= length.
C11_Claimed_OutOfRangeIsIndexNotFound ==
    (call.op = "get" /\ FirstArgIsInteger) =>
        IF IndexInRange
        THEN output = Ok(input[call.args[1].n + 1])
        ELSE /\ IsErr(output)
             /\ output.err.error = "ArrayIndexNotFound"
             /\ <<0, 0, output.err.index>>
                  = <<call.args[1].top, call.args[1].high, call.args[1].n>>

\* C11, amended: get with an index i that an i32 holds returns the element
\* at position i when 0 <= i < length, and fails with ArrayIndexNotFound
\* carrying i when i is negative or i >= length, so a negative index
\* selects no element; with an integer index that no i32 holds, get fails
\* with WrongArguments echoing its arguments, and never with
\* ArrayIndexNotFound.
C11_GetInRangeOrIndexNotFound ==
    (call.op = "get" /\ FirstArgIsInteger) =>
        IF call.args[1].top = 0 /\ call.args[1].high = 0
        THEN IF IndexInRange
             THEN output = Ok(input[call.args[1].n + 1])
             ELSE output = Err(ArrayIndexNotFound(call.args[1].n))
        ELSE output = Err(WrongArguments("RadonArray", "Reduce", call.args))

\* C11: the index 2^31, which is past the end of the input and which no
\* i32 holds, has been asked for and WrongArguments returned.
C11_Witness ==
    /\ call.op = "get"
    /\ call.args = <<CborWideInteger(0, 1, -2147483647 - 1)>>
    /\ Len(input) >= 2
    /\ output = Err(WrongArguments("RadonArray", "Reduce", call.args))

\* C12: count never fails and returns the number of elements of the array
\* as an Integer, for the empty array (0) and for arrays of mixed kinds.
C12_CountIsLength ==
    call.op = "count" => output = Ok(RadonInteger(Len(input)))

C12_Witness ==
    /\ call.op = "count"
    /\ MixedKinds(input)
    /\ Len(input) = 3
    /\ input[1] = input[2]
    /\ output = Ok(RadonInteger(3))

\* C13: the reduce operator fails with WrongArguments, naming
\* RadonArray::Reduce and echoing the arguments, when it has no argument,
\* when the first argument is no integer, and when the integer is no
\* reducer code; only a reducer code reaches the reducer.
C13_ReduceRejectsBadArguments ==
    call.op = "array_reduce" =>
        IF /\ FirstArgIsInteger
           /\ call.args[1].top = 0
           /\ call.args[1].high = 0
           /\ call.args[1].n \in 0..12
        THEN output = reduce(input, call.args[1].n, DefaultContext)
        ELSE output = Err(WrongArguments("RadonArray", "Reduce", call.args))

C13_Witness ==
    /\ call.op = "array_reduce"
    /\ call.args = <<CborInteger(-1)>>
    /\ Len(input) > 0
    /\ output =
         Err(WrongArguments("RadonArray", "Reduce", <<CborInteger(-1)>>))

(***************************************************************************)
(* The dispatch of calls and the propagation of errors.                    *)
(***************************************************************************)
\* The result of the first j calls of the last script on the input array.
PrefixResult(j) ==
    execute_radon_script(RadonArray(input), SubSeq(Unpacked.v, 1, j))

\* The result of the first j calls of the last subscript on item i.
SubscriptPrefixOn(i, j) ==
    execute_radon_script(input[i], SubSeq(Unpacked.v, 1, j))

\* C14: once a call of a script, or of the subscript of map or filter, has
\* failed, the calls after it leave the error unchanged, and the error
\* reported is the first one raised: by the first failing call of a script,
\* and in map by the first item whose subscript fails.
C14_FirstErrorIsReported ==
    /\ (call.op = "execute" /\ IsOk(Unpacked)) =>
           \A j \in 0..Len(Unpacked.v) :
               IsErr(PrefixResult(j)) => output = PrefixResult(j)
    /\ (call.op \in {"map", "filter"} /\ IsOk(Unpacked)) =>
           \A i \in 1..Len(input) : \A j \in 0..Len(Unpacked.v) :
               IsErr(SubscriptPrefixOn(i, j)) =>
                   SubscriptOn(i) = SubscriptPrefixOn(i, j)
    /\ (call.op = "map" /\ IsOk(Unpacked)) =>
           \A i \in 1..Len(input) :
               (/\ IsErr(SubscriptOn(i))
                /\ \A h \in 1..(i - 1) : IsOk(SubscriptOn(h)))
               => output = SubscriptOn(i)

C14_Witness ==
    /\ call.op = "map"
    /\ call.args = <<PackedCall(RadonOpCodes.IntegerMultiply, 4),
                     PackedCall(RadonOpCodes.IntegerGreaterThan, 10)>>
    /\ input = <<RadonInteger(2), RadonFloat(1, 1), RadonBoolean(TRUE)>>
    /\ output = Err(UnsupportedOperator("Float", "IntegerMultiply"))

IdentityCall == RadonCall("Identity", FALSE, <<>>)

\* C15: Identity changes nothing: identity and the Identity call return the
\* value they are given, and a script followed by Identity gives the result
\* of the script alone.
C15_IdentityIsNoOp ==
    /\ identity(RadonArray(input)) = Ok(RadonArray(input))
    /\ operate(RadonArray(input), IdentityCall) = Ok(RadonArray(input))
    /\ \A i \in 1..Len(input) :
           /\ identity(input[i]) = Ok(input[i])
           /\ operate(input[i], IdentityCall) = Ok(input[i])
    /\ (call.op = "execute" /\ IsOk(Unpacked)) =>
           execute_radon_script(RadonArray(input),
                                Append(Unpacked.v, IdentityCall)) = output
    /\ (call.op \in {"map", "filter"} /\ IsOk(Unpacked)) =>
           \A i \in 1..Len(input) :
               execute_radon_script(input[i],
                                    Append(Unpacked.v, IdentityCall))
                   = SubscriptOn(i)

C15_Witness ==
    /\ call.op = "execute"
    /\ call.args = <<CborInteger(RadonOpCodes.ArrayCount),
                     CborInteger(RadonOpCodes.Identity)>>
    /\ Len(input) = 2
    /\ output = Ok(RadonInteger(2))

\* The kind whose handlers an opcode of the subscripts belongs to.
OpCodeKind(op) ==
    CASE op \in {"IntegerGreaterThan", "IntegerMultiply"} -> "Integer"
      [] op = "BooleanNegate" -> "Boolean"
      [] op = "FloatMultiply" -> "Float"
      [] op = "ArrayCount" -> "Array"

\* C16: a call is dispatched on the kind of the value: an opcode the kind
\* has no handler for (a Float opcode on an Array, an Integer opcode on a
\* Boolean) fails with UnsupportedOperator naming the kind and the opcode,
\* and otherwise the result of the handler replaces the value.
C16_DispatchByKind ==
    /\ (call.op = "execute" /\ IsOk(Unpacked) /\ Len(Unpacked.v) = 1
        /\ Unpacked.v[1].op \in {"FloatMultiply", "ArrayCount"}) =>
           IF OpCodeKind(Unpacked.v[1].op) = "Array"
           THEN output = Ok(count(input))
           ELSE output =
                  Err(UnsupportedOperator("Array", Unpacked.v[1].op))
    /\ (call.op = "map" /\ IsOk(Unpacked) /\ Len(Unpacked.v) = 1
        /\ Unpacked.v[1].op # "Identity") =>
           \A i \in 1..Len(input) :
               IF OpCodeKind(Unpacked.v[1].op) = input[i].kind
               THEN /\ IsOk(SubscriptOn(i))
                    /\ SubscriptOn(i) =
                         IF input[i].kind = "Integer"
                         THEN integer_operate(input[i], Unpacked.v[1])
                         ELSE boolean_operate(input[i], Unpacked.v[1])
               ELSE SubscriptOn(i) =
                      Err(UnsupportedOperator(input[i].kind,
                                              Unpacked.v[1].op))

C16_Witness ==
    /\ call.op = "execute"
    /\ call.args = <<PackedCall(RadonOpCodes.FloatMultiply, 2)>>
    /\ Len(input) > 0
    /\ output = Err(UnsupportedOperator("Array", "FloatMultiply"))

(***************************************************************************)
(* The opcodes of the wire format.                                         *)
(***************************************************************************)
\* The opcodes the wire format lists, with their values.
WireOpCodes ==
    [Identity |-> 0,
     ArrayCount |-> 16, ArrayFilter |-> 17, ArrayMap |-> 26,
     ArrayReduce |-> 27, ArraySort |-> 29,
     BooleanNegate |-> 33,
     BytesAsString |-> 48, BytesHash |-> 49,
     IntegerAbsolute |-> 64, IntegerAsFloat |-> 65, IntegerAsString |-> 66,
     IntegerGreaterThan |-> 67, IntegerLessThan |-> 68,
     IntegerModulo |-> 70, IntegerMultiply |-> 71, IntegerNegate |-> 72,
     IntegerPower |-> 73,
     FloatAbsolute |-> 80, FloatAsString |-> 81, FloatCeiling |-> 82,
     FloatGreaterThan |-> 83, FloatFloor |-> 84, FloatLessThan |-> 85,
     FloatModulo |-> 86, FloatMultiply |-> 87, FloatNegate |-> 88,
     FloatPower |-> 89, FloatRound |-> 91, FloatTruncate |-> 93,
     MapKeys |-> 104,
     StringAsBoolean |-> 112, StringAsFloat |-> 114, StringAsInteger |-> 115,
     StringLength |-> 116, StringMatch |-> 117, StringToLowerCase |-> 125,
     StringToUpperCase |-> 126,
     MixedAsArray |-> 128, MixedAsBoolean |-> 129, MixedAsFloat |-> 130,
     MixedAsInteger |-> 131, MixedAsMap |-> 132, MixedAsString |-> 133,
     StringParseJSON |-> 165, ArrayGet |-> 166, MapGet |-> 167,
     MapValues |-> 168,
     Fail |-> 255]

\* The bytes that are the value of an opcode.
OpCodeBytes == {RadonOpCodes[name] : name \in DOMAIN RadonOpCodes}

\* Every opcode is one byte, and no two opcodes have the same one.
OpCodesDistinct ==
    /\ \A name \in DOMAIN RadonOpCodes : RadonOpCodes[name] \in 0..255
    /\ \A a, b \in DOMAIN RadonOpCodes :
           RadonOpCodes[a] = RadonOpCodes[b] => a = b

\* A byte of the table converts to an opcode whose value is the byte, an
\* opcode's value converts to the opcode, and any other byte is rejected.
OpCodesRoundTrip ==
    /\ \A byte \in 0..255 :
           IF byte \in OpCodeBytes
           THEN /\ IsOk(op_code_try_from(byte))
                /\ RadonOpCodes[op_code_try_from(byte).v] = byte
           ELSE IsErr(op_code_try_from(byte))
    /\ \A name \in DOMAIN RadonOpCodes :
           op_code_try_from(RadonOpCodes[name]) = Ok(name)

\* The opcodes the wire format lists have the listed value in the code.
WireOpCodesInCode ==
    \A name \in DOMAIN WireOpCodes :
        /\ name \in DOMAIN RadonOpCodes
        /\ RadonOpCodes[name] = WireOpCodes[name]

\* C17: opcodes are stable 8-bit constants: distinct byte values, a byte
\* converted to an opcode and back is the same byte, a byte outside the
\* table is rejected (a script made of it is no RADON script), and the
\* opcodes the wire format lists have their listed values in the code.
C17_OpCodesStable ==
    /\ OpCodesDistinct
    /\ OpCodesRoundTrip
    /\ WireOpCodesInCode
    /\ (call.op = "execute" /\ Len(call.args) = 1
        /\ call.args[1].cbor = "Integer") =>
           IF /\ call.args[1].top = 0 /\ call.args[1].high = 0
              /\ call.args[1].n \in OpCodeBytes
           THEN \E name \in DOMAIN RadonOpCodes :
                   /\ RadonOpCodes[name] = call.args[1].n
                   /\ output = operate(RadonArray(input),
                                       RadonCall(name, FALSE, <<>>))
           ELSE output = Err(SourceScriptNotRADON(call.args[1]))

C17_Witness ==
    /\ call.op = "execute"
    /\ call.args = <<CborInteger(18)>>
    /\ output = Err(SourceScriptNotRADON(CborInteger(18)))

(***************************************************************************)
(* Totality and the depth of nested subscripts.                            *)
(***************************************************************************)
\* C19: count, get, reduce, map and filter return a value or an error for
\* every input array and every argument list: the empty array, a negative
\* or huge index, a missing or ill-typed argument, Unwrap of no element or
\* of one; none of them panics.
C19_OperatorsTotal ==
    call.op \in {"count", "get", "array_reduce", "reduce", "map", "filter"}
        => (IsOk(output) \/ IsErr(output)) /\ ~IsPanic(output)

C19_Witness ==
    /\ call.op = "get"
    /\ call.args = <<CborInteger(-2147483647)>>
    /\ Len(input) = 0
    /\ output = Err(ArrayIndexNotFound(-2147483647))

\* The error of a script nested deeper than MaxScriptDepth.
ScriptTooDeep == [error |-> "ScriptTooDeep"]

\* The depth of the subscripts nested in a packed script: 0 when no call
\* is a map or a filter.
RECURSIVE ScriptDepth(_)
ScriptDepth(args) ==
    IF Len(args) = 0 THEN 0
    ELSE LET packed_call == args[1]
             here ==
               IF /\ packed_call.cbor = "Array"
                  /\ Len(packed_call.elems) > 0
                  /\ packed_call.elems[1].cbor = "Integer"
                  /\ packed_call.elems[1].top = 0
                  /\ packed_call.elems[1].high = 0
                  /\ packed_call.elems[1].n \in
                       {RadonOpCodes.ArrayMap, RadonOpCodes.ArrayFilter}
               THEN 1 + ScriptDepth(Tail(packed_call.elems))
               ELSE 0
             rest == ScriptDepth(Tail(args))
         IN  IF here > rest THEN here ELSE rest

\* C20: a script whose subscripts nest deeper than MaxScriptDepth, run on
\* an input with arrays nested as deep, fails with ScriptTooDeep.
C20_Claimed_DeepScriptFails ==
    (/\ call.op = "execute"
     /\ ScriptDepth(call.args) > MaxScriptDepth
     /\ input = NestedInput)
    => output = Err(ScriptTooDeep)

(***************************************************************************)
(* The mean of Floats.                                                     *)
(***************************************************************************)
\* Every element of the array is a Float, and there is one at least.
AllFloats(value) ==
    Len(value) > 0 /\ \A i \in 1..Len(value) : value[i].kind = "Float"

\* C21: reduce with AverageMean on an array of Floats returns their
\* arithmetic mean as a Float, not rounded to an integer, although reduce
\* names the RoundToInteger return policy: the mean times the number of
\* elements is their sum.
C21_MeanOfFloatsIsFloat ==
    (Reduced(AverageMean) /\ AllFloats(input)) =>
        /\ IsOk(output)
        /\ output.v.kind = "Float"
        /\ RatMul(output.v.q, <<Len(input), 1>>) = RatSum(input)

C21_Witness ==
    /\ Reduced(AverageMean)
    /\ input = <<RadonFloat(1, 1), RadonFloat(2, 1)>>
    /\ output = Ok(RadonFloat(3, 2))

(***************************************************************************)
(* The first failing element of map and filter.                            *)
(***************************************************************************)
\* The operator of the last call fails on item i: the subscript returns an
\* error, or in filter a value that is not a Boolean.
FailsOn(i) ==
    \/ IsErr(SubscriptOn(i))
    \/ call.op = "filter" /\ NotBooleanOn(i)

\* The error of the operator for an item it fails on.
ElementError(i) ==
    IF IsErr(SubscriptOn(i)) THEN SubscriptOn(i)
    ELSE Err(ArrayFilterWrongSubscript(radon_to_string(SubscriptOn(i).v)))

\* C30, as claimed: when the subscript fails on some element, the result
\* of map and of filter is the error the subscript gave for the first such
\* element in input order.
C30_Claimed_FirstSubscriptErrorReturned ==
    (call.op \in {"map", "filter"} /\ IsOk(Unpacked)) =>
        \A i \in 1..Len(input) :
            (IsErr(SubscriptOn(i))
                /\ \A h \in 1..(i - 1) : ~IsErr(SubscriptOn(h)))
            => output = SubscriptOn(i)

\* C30, amended: when map or filter fails on some element, where filter
\* fails also on an element for which the subscript gives a value that is
\* not a Boolean, the result of the whole operator is the error of the
\* first failing element in input order, not an array of the elements
\* before it and not the error of a later one, be that a later error of
\* the subscript; when it fails on none, the result is an array.
C30_FirstFailingElementEndsOperator ==
    (call.op \in {"map", "filter"} /\ IsOk(Unpacked)) =>
        /\ \A i \in 1..Len(input) :
               (FailsOn(i) /\ \A h \in 1..(i - 1) : ~FailsOn(h))
               => output = ElementError(i)
        /\ (\A i \in 1..Len(input) : ~FailsOn(i))
               => IsOk(output) /\ output.v.kind = "Array"

\* C30: the first item has passed the predicate, the subscript has failed
\* on the second and on the third, and filter has returned the error of
\* the second.
C30_Witness ==
    /\ call.op = "filter"
    /\ call.args = <<PackedCall(RadonOpCodes.IntegerGreaterThan, 4)>>
    /\ input = <<RadonInteger(6), RadonBoolean(TRUE), RadonFloat(1, 1)>>
    /\ output = Err(UnsupportedOperator("Boolean", "IntegerGreaterThan"))

(***************************************************************************)
(* The session actor of a peer-to-peer connection                          *)
(* (core/src/actors/session/handlers.rs).  The state of a session is its   *)
(* type, its status, the handshake flags and the sender address of the     *)
(* peer; waiting is the queue of the futures the context waits for, during *)
(* which it handles no other event; effects is the log of what the session *)
(* has sent to the peer and to other actors and of the replies it got.     *)
(***************************************************************************)
\* Longest log of effects of a session.
MaxEffects == 6

\* Most elements of the inventory of a GetData message.
MaxInventory == 2

NoAddress == [is_some |-> FALSE, addr |-> ""]
SomeAddress(addr) == [is_some |-> TRUE, addr |-> addr]

\* HandshakeFlags::all_true.
mutant_all_true_received_only(flags) == flags.version_rx

all_true(flags) ==
    flags.version_rx /\ flags.version_tx /\ flags.verack_rx /\ flags.verack_tx

\* Session::send_message: the message written to the peer.
send_message(s, msg) == [s EXCEPT !.effects = Append(@, "peer<-" \o msg)]

\* handshake_verack.
handshake_verack(s) == [s EXCEPT !.handshake_flags.verack_rx = TRUE]

\* handshake_version: the session with its flags set and the sender address
\* stored, and the messages to answer with.
mutant_handshake_version_always_replies(s, sender_address) ==
    [session |-> [s EXCEPT !.remote_sender_addr = SomeAddress(sender_address),
                           !.handshake_flags.version_rx = TRUE,
                           !.handshake_flags.verack_tx = TRUE,
                           !.handshake_flags.version_tx = TRUE],
     msgs |-> <<"Verack", "Version">>]

handshake_version(s, sender_address) ==
    LET flags == s.handshake_flags IN
    [session |-> [s EXCEPT !.remote_sender_addr = SomeAddress(sender_address),
                           !.handshake_flags.version_rx = TRUE,
                           !.handshake_flags.verack_tx = TRUE,
                           !.handshake_flags.version_tx = TRUE],
     msgs |-> (IF ~flags.verack_tx THEN <<"Verack">> ELSE <<>>)
              \o (IF ~flags.version_tx THEN <<"Version">> ELSE <<>>)]

\* update_consolidate: the Consolidate request sent to the SessionsManager,
\* for whose answer the context waits.
update_consolidate(s) ==
    [s EXCEPT !.effects = Append(@, "SessionsManager<-Consolidate"),
              !.waiting = Append(@, "Consolidate")]

\* try_consolidate_session.
try_consolidate_session(s) ==
    IF all_true(s.handshake_flags) /\ s.remote_sender_addr.is_some
    THEN update_consolidate(s)
    ELSE s

\* The closure of update_consolidate on the answer of the SessionsManager.
mutant_consolidate_then_any_answer(s, res) ==
    IF res \in {"Ok(Ok)", "Ok(Err)"}
    THEN [s EXCEPT !.status = "Consolidated"]
    ELSE [s EXCEPT !.stopped = TRUE]

consolidate_then(s, res) ==
    IF res = "Ok(Ok)"
    THEN [s EXCEPT !.status = "Consolidated"]
    ELSE [s EXCEPT !.stopped = TRUE]

\* peer_discovery_get_peers: the GetPeers request sent to the PeersManager.
peer_discovery_get_peers(s) ==
    [s EXCEPT !.effects = Append(@, "PeersManager<-GetPeers"),
              !.waiting = Append(@, "GetPeers")]

\* The closure of peer_discovery_get_peers on the answer.
get_peers_then(s, res) ==
    IF res = "Ok(Ok)"
    THEN send_message(s, "Peers")
    ELSE [s EXCEPT !.stopped = TRUE]

\* peer_discovery_peers: AddPeers sent to the PeersManager.
peer_discovery_peers(s) ==
    [s EXCEPT !.effects = Append(@, "PeersManager<-AddPeers")]

\* send_block_msg: the Get request sent to the StorageManager.
send_block_msg(s) ==
    [s EXCEPT !.effects = Append(@, "StorageManager<-Get"),
              !.waiting = Append(@, "Get")]

\* The loop of the GetData arm over the inventory.
RECURSIVE get_data(_, _)
get_data(s, inventory) ==
    IF Len(inventory) = 0 THEN s
    ELSE get_data(IF inventory[1] = "Error" THEN s ELSE send_block_msg(s),
                  Tail(inventory))

\* The Version arm of StreamHandler::handle: the answers of
\* handshake_version are sent, then the session tries to consolidate.
handle_version(s, sender_address) ==
    LET hs == handshake_version(s, sender_address)
        replied ==
          IF Len(hs.msgs) = 0 THEN hs.session
          ELSE IF Len(hs.msgs) = 1
               THEN send_message(hs.session, hs.msgs[1])
               ELSE send_message(send_message(hs.session, hs.msgs[1]),
                                 hs.msgs[2])
    IN  try_consolidate_session(replied)

\* The Verack arm of StreamHandler::handle.
mutant_handle_verack_without_consolidate(s) == handshake_verack(s)

handle_verack(s) == try_consolidate_session(handshake_verack(s))

\* A message of the peer, decoded.
Message(kind, sender_address, inventory) ==
    [kind |-> kind, sender_address |-> sender_address, inventory |-> inventory]

\* StreamHandler::handle on a decoded message: the arm of the session type,
\* the status and the kind of the message.
mutant_stream_handle_any_status(s, msg) ==
    CASE s.status = "Unconsolidated" /\ msg.kind = "Version" ->
           handle_version(s, msg.sender_address)
      [] s.status = "Unconsolidated" /\ msg.kind = "Verack" ->
           handle_verack(s)
      [] msg.kind = "GetPeers" ->
           peer_discovery_get_peers(s)
      [] s.session_type = "Outbound" /\ s.status = "Consolidated"
         /\ msg.kind = "Peers" ->
           peer_discovery_peers(s)
      [] s.status = "Consolidated" /\ msg.kind = "GetData" ->
           get_data(s, msg.inventory)
      [] OTHER -> s

stream_handle(s, msg) ==
    CASE s.status = "Unconsolidated" /\ msg.kind = "Version" ->
           handle_version(s, msg.sender_address)
      [] s.status = "Unconsolidated" /\ msg.kind = "Verack" ->
           handle_verack(s)
      [] s.status = "Consolidated" /\ msg.kind = "GetPeers" ->
           peer_discovery_get_peers(s)
      [] s.session_type = "Outbound" /\ s.status = "Consolidated"
         /\ msg.kind = "Peers" ->
           peer_discovery_peers(s)
      [] s.status = "Consolidated" /\ msg.kind = "GetData" ->
           get_data(s, msg.inventory)
      [] OTHER -> s

(***************************************************************************)
(* The session as a state machine.                                         *)
(***************************************************************************)
rad_vars == <<input, context, call, output>>

\* No event handled yet.
NoEvent == [event |-> "none"]

\* Session::new and Session::started: an outbound session opens the
\* handshake with its Version message.  last is the event handled last,
\* with the session as it was before.
new_session(session_type) ==
    [session_type |-> session_type,
     status |-> "Unconsolidated",
     handshake_flags |->
       [version_rx |-> FALSE, version_tx |-> session_type = "Outbound",
        verack_rx |-> FALSE, verack_tx |-> FALSE],
     remote_sender_addr |-> NoAddress,
     waiting |-> <<>>,
     stopped |-> FALSE,
     effects |-> IF session_type = "Outbound" THEN <<"peer<-Version">>
                 ELSE <<>>,
     last |-> NoEvent]

\* The inventories of the GetData messages.
Inventories ==
    UNION {[1..n -> {"Block", "Error"}] : n \in 0..MaxInventory}

\* The messages a peer sends.
Messages ==
    {Message("Version", addr, <<>>) : addr \in {"a1", "a2"}}
    \cup {Message(kind, "", <<>>) :
             kind \in {"Verack", "GetPeers", "Peers", "Ping"}}
    \cup {Message("GetData", "", inventory) : inventory \in Inventories}

\* WitnetMessage::try_from: the message of the bytes, if they are one.
Undecodable == [decoded |-> FALSE, msg |-> Message("", "", <<>>)]
Encoded(msg) == [decoded |-> TRUE, msg |-> msg]
try_from(bytes) ==
    IF bytes.decoded THEN Ok(bytes.msg) ELSE Err([error |-> "Decode"])

\* What the socket delivers.
Frames == {Encoded(msg) : msg \in Messages} \cup {Undecodable}

\* The answers of another actor to a request: its result, its error, or
\* the failure of the mailbox.
Answers == {"Ok(Ok)", "Ok(Err)", "Err"}

\* The session handles an event: it runs, and its context waits for no
\* future.
Ready ==
    /\ session # NoSession
    /\ ~session.stopped
    /\ session.waiting = <<>>

\* The session without the record of the event handled last.
Forget(s) == [s EXCEPT !.last = NoEvent]

\* What an event leaves in last.
Handled(event) == [event |-> event, session_before |-> Forget(session)]
Received(bytes) ==
    [event |-> "StreamHandle", frame |-> bytes,
     session_before |-> Forget(session)]

SessionInit ==
    /\ input = <<>>
    /\ context = DefaultContext
    /\ call = NoCall
    /\ output = None
    /\ session \in {new_session(session_type) :
                      session_type \in {"Inbound", "Outbound"}}
    /\ app = NoApp

\* StreamHandler::handle: bytes of the peer.
StreamHandle(bytes) ==
    /\ Ready
    /\ LET result == try_from(bytes)
           handled == IF IsOk(result) THEN stream_handle(session, result.v)
                      ELSE session
       IN  /\ Len(handled.effects) <= MaxEffects
           /\ session' = [handled EXCEPT !.last = Received(bytes)]
    /\ UNCHANGED <<rad_vars, app>>

\* Handler<GetPeers>: another actor asks for the peers of the peer.
HandleGetPeers ==
    /\ Ready
    /\ Len(session.effects) < MaxEffects
    /\ session' = [send_message(session, "GetPeers") EXCEPT
                      !.last = Handled("GetPeers")]
    /\ UNCHANGED <<rad_vars, app>>

\* Handler<AnnounceItems>: another actor announces items to the peer.
HandleAnnounceItems ==
    /\ Ready
    /\ Len(session.effects) < MaxEffects
    /\ session' = [send_message(session, "Inv") EXCEPT
                      !.last = Handled("AnnounceItems")]
    /\ UNCHANGED <<rad_vars, app>>

\* The future at the head of the queue resolves with the answer res: the
\* session with the future taken off the queue and the answer logged.
Answered(from, res) ==
    [session EXCEPT !.waiting = Tail(@),
                    !.effects = Append(@, from \o "->" \o res)]

Waiting(request) ==
    /\ session # NoSession
    /\ ~session.stopped
    /\ session.waiting # <<>>
    /\ Head(session.waiting) = request

\* The SessionsManager answers the Consolidate request.
ConsolidateAnswer(res) ==
    /\ Waiting("Consolidate")
    /\ session' = [consolidate_then(Answered("SessionsManager", res), res)
                      EXCEPT !.last = Handled("ConsolidateAnswer")]
    /\ UNCHANGED <<rad_vars, app>>

\* The PeersManager answers the GetPeers request.
GetPeersAnswer(res) ==
    /\ Waiting("GetPeers")
    /\ session' = [get_peers_then(Answered("PeersManager", res), res)
                      EXCEPT !.last = Handled("GetPeersAnswer")]
    /\ UNCHANGED <<rad_vars, app>>

\* The StorageManager answers a Get request: the block, if it found one, is
\* built into a message that is not sent.
GetAnswer(res) ==
    /\ Waiting("Get")
    /\ session' = [Answered("StorageManager", res) EXCEPT
                      !.last = Handled("GetAnswer")]
    /\ UNCHANGED <<rad_vars, app>>

SessionNext ==
    \/ \E bytes \in Frames : StreamHandle(bytes)
    \/ HandleGetPeers
    \/ HandleAnnounceItems
    \/ \E res \in Answers : ConsolidateAnswer(res)
    \/ \E res \in Answers : GetPeersAnswer(res)
    \/ \E res \in Answers : GetAnswer(res)

SessionSpec == SessionInit /\ [][SessionNext]_vars

\* The element e is in the sequence seq.
Contains(seq, e) == \E i \in 1..Len(seq) : seq[i] = e

\* C22: a session is Consolidated only when the four handshake flags are
\* set, the sender address of the peer is known from a Version message,
\* and the SessionsManager has answered the Consolidate request with
\* success.
C22_ConsolidatedOnlyAfterHandshake ==
    (session # NoSession /\ session.status = "Consolidated") =>
        /\ session.handshake_flags.version_rx
        /\ session.handshake_flags.version_tx
        /\ session.handshake_flags.verack_rx
        /\ session.handshake_flags.verack_tx
        /\ session.remote_sender_addr.is_some
        /\ Contains(session.effects, "SessionsManager<-Consolidate")
        /\ Contains(session.effects, "SessionsManager->Ok(Ok)")

C22_Witness ==
    /\ session # NoSession
    /\ session.session_type = "Inbound"
    /\ session.status = "Consolidated"
    /\ session.remote_sender_addr = SomeAddress("a1")

\* The future of a request to another actor resolves, with the answer or
\* with the failure of the mailbox: the answer to Consolidate is not put off
\* for ever.
SessionLiveSpec ==
    SessionSpec /\ WF_vars(\E res \in Answers : ConsolidateAnswer(res))

\* The peer has sent both a Version and a Verack message.
BothReceived(s) == s.handshake_flags.version_rx /\ s.handshake_flags.verack_rx

\* The event handled last was the message of the handshake, Version or
\* Verack, that was the second of the two to arrive.
SecondOfHandshake ==
    /\ session.last.event = "StreamHandle"
    /\ session.last.frame.decoded
    /\ session.last.frame.msg.kind \in {"Version", "Verack"}
    /\ session.last.session_before.status = "Unconsolidated"
    /\ ~BothReceived(session.last.session_before)
    /\ BothReceived(session)

\* C31: once a Version and a Verack have arrived, in either order and
\* however often, the four flags are set, the address of the peer is known
\* and the Consolidate request has been sent, by the very message that was
\* the second of the two; a successful answer makes the session
\* Consolidated, and the request is answered in the end: with success and
\* the session Consolidated, or with a failure and the session stopped.
C31_HandshakeEitherOrder ==
    /\ [](BothReceived(session) =>
            /\ session.handshake_flags.version_tx
            /\ session.handshake_flags.verack_tx
            /\ session.remote_sender_addr.is_some
            /\ Contains(session.effects, "SessionsManager<-Consolidate"))
    /\ [](SecondOfHandshake =>
            /\ session.waiting = <<"Consolidate">>
            /\ session.effects[Len(session.effects)] =
                   "SessionsManager<-Consolidate"
            /\ session.status = "Unconsolidated")
    /\ [](Contains(session.effects, "SessionsManager->Ok(Ok)") =>
            session.status = "Consolidated")
    /\ (Waiting("Consolidate") ~>
          \/ /\ session.status = "Consolidated"
             /\ Contains(session.effects, "SessionsManager->Ok(Ok)")
          \/ /\ session.stopped
             /\ ~Contains(session.effects, "SessionsManager->Ok(Ok)"))

\* An inbound session got Verack first and Version second, and waits for
\* the answer to its Consolidate request.
C31_Witness ==
    /\ SecondOfHandshake
    /\ session.session_type = "Inbound"
    /\ session.last.frame.msg.kind = "Version"
    /\ session.last.session_before.handshake_flags.verack_rx
    /\ session.waiting = <<"Consolidate">>

\* How often the entry e is in the log.
Sent(effects, e) == Cardinality({i \in 1..Len(effects) : effects[i] = e})

\* The Version messages a session has sent in answer to its peer: those in
\* the log but the one an outbound session opened with.
VersionReplies(s) ==
    Sent(s.effects, "peer<-Version")
    - Sent(new_session(s.session_type).effects, "peer<-Version")

\* The event handled last was a Version message that was not the first.
RepeatedVersion ==
    /\ session.last.event = "StreamHandle"
    /\ session.last.frame.decoded
    /\ session.last.frame.msg.kind = "Version"
    /\ session.last.session_before.status = "Unconsolidated"
    /\ session.last.session_before.handshake_flags.version_rx

\* C32: a session sends its peer at most one Verack, and at most one
\* Version in answer to Version messages; a Version message after the first
\* changes no flag and sends nothing, to the peer or to another actor; and
\* no step clears a handshake flag that was set.
C32_HandshakeRepliesOnce ==
    /\ [](/\ Sent(session.effects, "peer<-Verack") <= 1
          /\ VersionReplies(session) <= 1)
    /\ [](RepeatedVersion =>
            /\ session.handshake_flags =
                   session.last.session_before.handshake_flags
            /\ session.effects = session.last.session_before.effects
            /\ session.waiting = session.last.session_before.waiting)
    /\ [][\A flag \in DOMAIN session.handshake_flags :
            session.handshake_flags[flag] => session'.handshake_flags[flag]]_vars

\* An inbound session that answered the Version of a1 with Verack and
\* Version got a second Version, from a2, and sent nothing more.
C32_Witness ==
    /\ RepeatedVersion
    /\ session.session_type = "Inbound"
    /\ session.last.session_before.remote_sender_addr = SomeAddress("a1")
    /\ session.remote_sender_addr = SomeAddress("a2")
    /\ session.effects = <<"peer<-Verack", "peer<-Version">>

\* The message of the frame does not fit the type and the status of the
\* session s, or the frame does not decode.
Unsupported(s, bytes) ==
    \/ ~bytes.decoded
    \/ /\ s.status = "Consolidated"
       /\ bytes.msg.kind \in {"Version", "Verack"}
    \/ /\ s.status = "Unconsolidated"
       /\ bytes.msg.kind \in {"GetPeers", "GetData"}
    \/ /\ s.session_type = "Inbound"
       /\ bytes.msg.kind = "Peers"

\* C33: a frame that does not decode, Version or Verack for a Consolidated
\* session, GetPeers or GetData for an Unconsolidated one, and Peers for an
\* inbound session leave the status, the flags, the address of the peer,
\* the futures waited for and the log of what was sent as they were.
C33_UnsupportedMessageIgnored ==
    (/\ session.last.event = "StreamHandle"
     /\ Unsupported(session.last.session_before, session.last.frame)) =>
        Forget(session) = session.last.session_before

\* A Consolidated inbound session got a Peers message and ignored it.
C33_Witness ==
    /\ session.last.event = "StreamHandle"
    /\ session.last.frame.decoded
    /\ session.last.frame.msg.kind = "Peers"
    /\ session.session_type = "Inbound"
    /\ session.status = "Consolidated"
    /\ Forget(session) = session.last.session_before

(***************************************************************************)
(* The application actor of the wallet, with its subscription slots        *)
(* (wallet/src/actors/app/mod.rs).  last is the call made last: the        *)
(* method, its arguments, its result and the slots before it.              *)
(***************************************************************************)
\* The number of subscription slots.
SubscriptionSlots == 10

Slots == 0..(SubscriptionSlots - 1)

\* The unit value of Ok(()).
Unit == [unit |-> TRUE]

SubscribeFailed(reason) == [error |-> "SubscribeFailed", reason |-> reason]
UnsubscribeFailed(reason) == [error |-> "UnsubscribeFailed", reason |-> reason]

\* pubsub::SubscriptionId.
Number(n) == [id |-> "Number", n |-> n]
String(s) == [id |-> "String", s |-> s]

\* A slot: free, or the sink of a subscriber that was assigned the id.
NoSink == [sink |-> FALSE]
Sink(id) == [sink |-> TRUE, id |-> id]

NoLast == [op |-> "none"]

\* App::new.
App_new ==
    [subscriptions |-> [i \in Slots |-> NoSink],
     sessions |-> [k \in {} |-> {}],
     unlocked_wallets |-> [k \in {} |-> {}],
     wallet_keys |-> {},
     storage |-> <<>>,
     mailbox |-> <<>>,
     last |-> NoLast]

\* iter_mut().enumerate().find(|(_, slot)| slot.is_none()): the first free
\* slot from index i on.
RECURSIVE find_free(_, _)
find_free(subscriptions, i) ==
    IF i >= SubscriptionSlots THEN None
    ELSE IF subscriptions[i] = NoSink THEN Ok(i)
         ELSE find_free(subscriptions, i + 1)

\* App::subscribe; assigned tells whether the subscriber took the id.
mutant_subscribe_last_free(a, assigned) ==
    LET free == {i \in Slots : a.subscriptions[i] = NoSink} IN
    IF free = {}
    THEN [app |-> a,
          result |-> Err(SubscribeFailed("max limit of subscriptions reached"))]
    ELSE LET id == CHOOSE i \in free : \A j \in free : j <= i IN
         [app |-> [a EXCEPT !.subscriptions[id] =
                              IF assigned THEN Sink(Number(id)) ELSE NoSink],
          result |-> Ok(id)]

subscribe(a, assigned) ==
    LET found == find_free(a.subscriptions, 0) IN
    IF ~IsOk(found)
    THEN [app |-> a,
          result |-> Err(SubscribeFailed("max limit of subscriptions reached"))]
    ELSE [app |-> [a EXCEPT !.subscriptions[found.v] =
                              IF assigned THEN Sink(Number(found.v))
                              ELSE NoSink],
          result |-> Ok(found.v)]

\* App::unsubscribe.
mutant_unsubscribe_clamped(a, id) ==
    IF id.id # "Number"
    THEN [app |-> a,
          result |-> Err(UnsubscribeFailed("subscription id must be a number"))]
    ELSE LET index == IF id.n >= SubscriptionSlots
                      THEN SubscriptionSlots - 1 ELSE id.n
         IN  [app |-> [a EXCEPT !.subscriptions[index] = NoSink],
              result |-> Ok(Unit)]

unsubscribe(a, id) ==
    IF id.id # "Number"
    THEN [app |-> a,
          result |-> Err(UnsubscribeFailed("subscription id must be a number"))]
    ELSE LET index == id.n IN
         IF index >= SubscriptionSlots
         THEN [app |-> a,
               result |-> Err(UnsubscribeFailed("subscription id not found"))]
         ELSE [app |-> [a EXCEPT !.subscriptions[index] = NoSink],
               result |-> Ok(Unit)]

\* The ids given to unsubscribe: every slot, numbers past the slots, and an
\* id that is no number.
SubscriptionIds ==
    {Number(n) : n \in Slots \cup {SubscriptionSlots, 2147483647}}
    \cup {String("s1")}

OtherInit ==
    /\ input = <<>>
    /\ context = DefaultContext
    /\ call = NoCall
    /\ output = None
    /\ session = NoSession

SubscriptionsInit == OtherInit /\ app = App_new

\* A call of App::subscribe.
Subscribe(assigned) ==
    /\ app # NoApp
    /\ LET r == subscribe(app, assigned) IN
       app' = [r.app EXCEPT !.last =
                 [op |-> "subscribe", id |-> Number(0), result |-> r.result,
                  before |-> app.subscriptions]]
    /\ UNCHANGED <<rad_vars, session>>

\* A call of App::unsubscribe.
Unsubscribe(id) ==
    /\ app # NoApp
    /\ LET r == unsubscribe(app, id) IN
       app' = [r.app EXCEPT !.last =
                 [op |-> "unsubscribe", id |-> id, result |-> r.result,
                  before |-> app.subscriptions]]
    /\ UNCHANGED <<rad_vars, session>>

SubscriptionsNext ==
    \/ \E assigned \in BOOLEAN : Subscribe(assigned)
    \/ \E id \in SubscriptionIds : Unsubscribe(id)

SubscriptionsSpec == SubscriptionsInit /\ [][SubscriptionsNext]_vars

FreeSlots(subscriptions) == {i \in Slots : subscriptions[i] = NoSink}

LowestFree(subscriptions) ==
    CHOOSE i \in FreeSlots(subscriptions) :
        \A j \in FreeSlots(subscriptions) : i <= j

\* C23: the application has ten subscription slots; subscribe answers the
\* index of the lowest free slot and touches no other slot, no two occupied
\* slots hold the same id, and with every slot occupied subscribe fails with
\* SubscribeFailed("max limit of subscriptions reached") and changes no slot.
C23_SubscribeLowestFreeSlot ==
    /\ DOMAIN app.subscriptions = 0..9
    /\ \A i, j \in Slots :
          (/\ app.subscriptions[i] # NoSink
           /\ app.subscriptions[j] # NoSink
           /\ app.subscriptions[i].id = app.subscriptions[j].id) => i = j
    /\ app.last.op = "subscribe" =>
          IF FreeSlots(app.last.before) = {}
          THEN /\ app.last.result =
                    Err(SubscribeFailed("max limit of subscriptions reached"))
               /\ app.subscriptions = app.last.before
          ELSE LET id == LowestFree(app.last.before) IN
               /\ app.last.result = Ok(id)
               /\ app.subscriptions[id] \in {NoSink, Sink(Number(id))}
               /\ \A j \in Slots \ {id} :
                     app.subscriptions[j] = app.last.before[j]

\* A subscription was given slot 3 while slot 5 was taken and slot 7 free.
C23_Witness ==
    /\ app.last.op = "subscribe"
    /\ app.last.result = Ok(3)
    /\ app.last.before[3] = NoSink
    /\ app.subscriptions[3] = Sink(Number(3))
    /\ app.subscriptions[5] # NoSink
    /\ app.subscriptions[7] = NoSink

\* C24: unsubscribe of a numbered id within the slots leaves that slot free,
\* whether it was taken or not, and touches no other slot, so that the id is
\* the one a later subscribe can hand out; an id that is no number, or a
\* number past the slots, fails with UnsubscribeFailed and changes no slot.
C24_UnsubscribeFreesOneSlot ==
    app.last.op = "unsubscribe" =>
        IF app.last.id.id = "Number" /\ app.last.id.n \in Slots
        THEN /\ app.last.result = Ok(Unit)
             /\ app.subscriptions[app.last.id.n] = NoSink
             /\ app.last.id.n \in FreeSlots(app.subscriptions)
             /\ \A j \in Slots \ {app.last.id.n} :
                   app.subscriptions[j] = app.last.before[j]
        ELSE /\ IsErr(app.last.result)
             /\ app.last.result.err.error = "UnsubscribeFailed"
             /\ app.subscriptions = app.last.before

\* Slot 2 was taken and is free after unsubscribe(2), with slot 1 still taken.
C24_Witness ==
    /\ app.last.op = "unsubscribe"
    /\ app.last.id = Number(2)
    /\ app.last.before[2] = Sink(Number(2))
    /\ app.subscriptions[2] = NoSink
    /\ app.subscriptions[1] = Sink(Number(1))
    /\ app.last.result = Ok(Unit)

(***************************************************************************)
(* Unlocking wallets (wallet/src/actors/app/mod.rs): unlocked_wallets maps *)
(* a wallet to the sessions that hold it, sessions a session to its        *)
(* wallets.  storage holds the requests the Storage actor has not answered *)
(* yet, mailbox the messages the application has sent itself.              *)
(***************************************************************************)
\* The most unlock requests in progress at a time, awaiting the Storage
\* actor or announced in the mailbox.
MaxPending == 2

WalletIds == {"w1", "w2"}
SessionIds == {"s1", "s2"}

\* map.entry(key).or_insert_with(HashSet::new).insert(value)
entry_insert(entries, key, value) ==
    [k \in DOMAIN entries \cup {key} |->
        IF k = key
        THEN (IF key \in DOMAIN entries THEN entries[key] ELSE {})
             \cup {value}
        ELSE entries[k]]

\* App::assoc_wallet_to_session.
assoc_wallet_to_session(a, wallet, session_id) ==
    [a EXCEPT !.sessions = entry_insert(a.sessions, session_id, wallet),
              !.unlocked_wallets =
                  entry_insert(a.unlocked_wallets, wallet, session_id),
              !.wallet_keys = a.wallet_keys \cup {wallet}]

\* App::unlock_wallet.  For a wallet in unlocked_wallets the session set is
\* cloned, the wallet id is inserted into the clone and the clone dropped;
\* for another wallet storage.send(..) puts the request in the mailbox of
\* the Storage actor at the call.
unlock_wallet(a, id, session_id) ==
    IF id \in DOMAIN a.unlocked_wallets
    THEN LET owner_sessions == a.unlocked_wallets[id] \cup {id} IN
         [app |-> a, result |-> Ok(Unit)]
    ELSE [app |-> [a EXCEPT !.storage =
                     Append(a.storage, [request |-> "UnlockWallet",
                                        wallet |-> id,
                                        session_id |-> session_id])],
          result |-> None]

\* The sequence without its i-th element.
Without(seq, i) == SubSeq(seq, 1, i - 1) \o SubSeq(seq, i + 1, Len(seq))

UnlockInit == OtherInit /\ app = App_new

\* A call of App::unlock_wallet.
UnlockWallet(id, session_id) ==
    /\ app # NoApp
    /\ Len(app.storage) + Len(app.mailbox) < MaxPending
    /\ LET r == unlock_wallet(app, id, session_id) IN
       app' = [r.app EXCEPT !.last =
                 [op |-> "unlock_wallet", wallet |-> id,
                  session_id |-> session_id, result |-> r.result,
                  wallets_before |-> app.unlocked_wallets,
                  storage_before |-> app.storage]]
    /\ UNCHANGED <<rad_vars, session>>

\* The Storage actor answers the i-th request: an unlocked wallet is
\* announced to the application itself, a failure ends the call.
StorageAnswer(i, res) ==
    /\ app # NoApp
    /\ i \in 1..Len(app.storage)
    /\ LET req == app.storage[i] IN
       app' = [app EXCEPT
                 !.storage = Without(app.storage, i),
                 !.mailbox =
                     IF res = "Ok(Ok)"
                     THEN Append(app.mailbox,
                                 [message |-> "WalletUnlocked",
                                  wallet |-> req.wallet,
                                  session_id |-> req.session_id])
                     ELSE app.mailbox,
                 !.last = [op |-> "storage_answer", wallet |-> req.wallet,
                           session_id |-> req.session_id,
                           result |-> IF res = "Ok(Ok)" THEN Ok(Unit)
                                      ELSE Err(res)]]
    /\ UNCHANGED <<rad_vars, session>>

\* The application handles WalletUnlocked.
HandleWalletUnlocked ==
    /\ app # NoApp
    /\ app.mailbox # <<>>
    /\ LET msg == Head(app.mailbox) IN
       app' = [assoc_wallet_to_session(app, msg.wallet, msg.session_id)
                 EXCEPT !.mailbox = Tail(app.mailbox),
                        !.last = [op |-> "wallet_unlocked",
                                  wallet |-> msg.wallet,
                                  session_id |-> msg.session_id,
                                  result |-> Ok(Unit)]]
    /\ UNCHANGED <<rad_vars, session>>

UnlockNext ==
    \/ \E id \in WalletIds, session_id \in SessionIds :
          UnlockWallet(id, session_id)
    \/ \E i \in 1..MaxPending, res \in Answers : StorageAnswer(i, res)
    \/ HandleWalletUnlocked

UnlockSpec == UnlockInit /\ [][UnlockNext]_vars

\* C29: after unlock_wallet for a wallet that is already unlocked, the
\* calling session is among the sessions of that wallet in unlocked_wallets,
\* and no request went to the Storage actor.  The code does not keep this.
C29_Claimed_SessionJoinsUnlockedWallet ==
    (/\ app.last.op = "unlock_wallet"
     /\ app.last.wallet \in DOMAIN app.last.wallets_before) =>
        /\ app.last.session_id \in app.unlocked_wallets[app.last.wallet]
        /\ app.storage = app.last.storage_before

(***************************************************************************)
(* The application actor of the wallet with sessions kept in its state     *)
(* (wallet/src/actors/app/methods.rs).  state.sessions maps an open        *)
(* session to its wallets; worker and node hold the requests those actors  *)
(* have not answered yet; futures holds the futures send_transaction has    *)
(* returned that have not been polled yet, each with the wallet its lookup *)
(* found or the error; system tells whether the actor system runs;         *)
(* broadcast and movements count, per wallet, the transactions the node    *)
(* accepted and the local pending movements added.                         *)
(***************************************************************************)
\* The most transactions sent to the node in one behaviour.
MaxTransactions == 2

SessionNotFound == [error |-> "SessionNotFound"]
WalletNotFound == [error |-> "WalletNotFound"]
SessionsStillOpen == [error |-> "SessionsStillOpen"]
Internal(e) == [error |-> "Internal", reason |-> e]

\* App::start.
App_start ==
    [server |-> "None",
     state |-> [sessions |-> [k \in {} |-> {}]],
     worker |-> <<>>,
     node |-> <<>>,
     futures |-> <<>>,
     system |-> "running",
     broadcast |-> [w \in WalletIds |-> 0],
     movements |-> [w \in WalletIds |-> 0],
     sent |-> 0,
     last |-> NoLast]

\* State::is_session_active.
is_session_active(state, session_id) == session_id \in DOMAIN state.sessions

\* State::get_wallets_by_session.
get_wallets_by_session(state, session_id) ==
    IF session_id \in DOMAIN state.sessions
    THEN Ok(state.sessions[session_id])
    ELSE Err(SessionNotFound)

\* State::get_wallet_by_session_and_id.
get_wallet_by_session_and_id(state, session_id, wallet_id) ==
    LET wallets == get_wallets_by_session(state, session_id) IN
    IF ~IsOk(wallets) THEN wallets
    ELSE IF wallet_id \in wallets.v THEN Ok(wallet_id)
         ELSE Err(WalletNotFound)

\* State::create_session.
create_session(state, session_id, wallet_id) ==
    [state EXCEPT !.sessions = entry_insert(state.sessions, session_id,
                                            wallet_id)]

\* State::remove_session.
remove_session(state, session_id) ==
    [state EXCEPT !.sessions =
        [k \in DOMAIN state.sessions \ {session_id} |-> state.sessions[k]]]

\* State::remove_wallet: the wallet leaves the session, which stays open.
remove_wallet(state, session_id, wallet_id) ==
    IF session_id \in DOMAIN state.sessions
    THEN [state |-> [state EXCEPT !.sessions[session_id] = @ \ {wallet_id}],
          result |-> Ok(Unit)]
    ELSE [state |-> state, result |-> Err(SessionNotFound)]

\* App::lock_wallet.
lock_wallet(a, session_id, wallet_id) ==
    LET removed == remove_wallet(a.state, session_id, wallet_id) IN
    [app |-> [a EXCEPT !.state = removed.state], result |-> removed.result]

\* SubscriptionId::from(session_id).
SubscriptionId_from(session_id) == String(session_id)

\* App::next_subscription_id.
mutant_next_subscription_id_any_session(a, session_id) ==
    Ok(SubscriptionId_from(session_id))

next_subscription_id(a, session_id) ==
    IF is_session_active(a.state, session_id)
    THEN Ok(SubscriptionId_from(session_id))
    ELSE Err(SessionNotFound)

\* App::stop_worker: FlushDb goes to the worker.
stop_worker(a) == [a EXCEPT !.worker = Append(a.worker, "FlushDb")]

\* App::stop: the server is taken and dropped and the worker asked to flush;
\* the system stops in stop_then.
stop(a) == stop_worker([a EXCEPT !.server = "None"])

\* The closures of App::stop and App::stop_worker on the worker's answer.
mutant_stop_then_any_answer(a, res) ==
    [a EXCEPT !.worker = Tail(a.worker), !.system = "stopped"]

stop_then(a, res) ==
    IF res = "Ok(Ok)"
    THEN [a EXCEPT !.worker = Tail(a.worker), !.system = "stopped"]
    ELSE [a EXCEPT !.worker = Tail(a.worker)]

\* App::shutdown_request; session_id is None or Ok(id) for Some(id).
mutant_shutdown_request_unchecked(a, session_id) ==
    [app |-> stop(a), result |-> Ok(Unit)]

shutdown_request(a, session_id) ==
    IF session_id # None
    THEN LET wallets == get_wallets_by_session(a.state, session_id.v) IN
         IF ~IsOk(wallets)
         THEN [app |-> a, result |-> wallets]
         ELSE [app |-> stop(a), result |-> Ok(Unit)]
    ELSE IF DOMAIN a.state.sessions # {}
         THEN [app |-> a, result |-> Err(SessionsStillOpen)]
         ELSE [app |-> stop(a), result |-> Ok(Unit)]

\* App::send_inventory_transaction: the "inventory" request goes to the node.
send_inventory_transaction(a, wallet) ==
    [a EXCEPT !.node = Append(a.node, [method |-> "inventory",
                                       wallet |-> wallet]),
              !.sent = a.sent + 1]

\* App::send_transaction: the lookup is made at the call, and the future
\* returned holds its outcome; nothing is sent before the future is polled.
send_transaction(a, session_id, wallet_id) ==
    [app |-> [a EXCEPT !.futures =
                Append(@, get_wallet_by_session_and_id(a.state, session_id,
                                                       wallet_id))],
     result |-> None]

\* The first poll of the i-th future of send_transaction: the error of the
\* lookup, or the and_then closure, which sends the inventory request.
mutant_send_transaction_movement_first(a, i) ==
    LET wallet == a.futures[i]
        polled == [a EXCEPT !.futures = Without(a.futures, i)] IN
    IF ~IsOk(wallet) THEN [app |-> polled, result |-> wallet]
    ELSE [app |-> send_inventory_transaction(
                    [polled EXCEPT !.movements[wallet.v] = @ + 1], wallet.v),
          result |-> None]

send_transaction_poll(a, i) ==
    LET wallet == a.futures[i]
        polled == [a EXCEPT !.futures = Without(a.futures, i)] IN
    IF ~IsOk(wallet) THEN [app |-> polled, result |-> wallet]
    ELSE [app |-> send_inventory_transaction(polled, wallet.v),
          result |-> None]

\* The closure of App::send_transaction on the node's answer to the i-th
\* request; added tells whether wallet.add_local_movement succeeded.
send_transaction_then(a, i, res, added) ==
    LET wallet == a.node[i].wallet
        answered == [a EXCEPT !.node = Without(a.node, i)] IN
    IF res # "Ok(Ok)"
    THEN [app |-> answered, result |-> Err(res)]
    ELSE LET accepted == [answered EXCEPT !.broadcast[wallet] = @ + 1] IN
         IF added
         THEN [app |-> [accepted EXCEPT !.movements[wallet] = @ + 1],
               result |-> Ok("SendTransactionResponse")]
         ELSE [app |-> accepted,
               result |-> Err(Internal("add_local_movement"))]

WalletInit == OtherInit /\ app = App_start

Running == app # NoApp /\ app.system = "running"

\* What a call leaves in last, with the application as it was before.
Called(op, session_id, wallet_id, result) ==
    [op |-> op, session_id |-> session_id, wallet |-> wallet_id,
     result |-> result, app_before |-> [app EXCEPT !.last = NoLast]]

\* The JSON-RPC server has started.
StartServer ==
    /\ Running
    /\ app.server = "None"
    /\ app' = [app EXCEPT !.server = "Some",
                          !.last = Called("start_server", None, "", None)]
    /\ UNCHANGED <<rad_vars, session>>

\* A wallet was unlocked for a session (the closure of App::unlock_wallet).
CreateSession(session_id, wallet_id) ==
    /\ Running
    /\ app' = [app EXCEPT
                 !.state = create_session(app.state, session_id, wallet_id),
                 !.last = Called("create_session", Ok(session_id), wallet_id,
                                 Ok(Unit))]
    /\ UNCHANGED <<rad_vars, session>>

\* App::close_session, called by a client or when the session expires.
CloseSession(session_id) ==
    /\ Running
    /\ session_id \in DOMAIN app.state.sessions
    /\ app' = [app EXCEPT
                 !.state = remove_session(app.state, session_id),
                 !.last = Called("close_session", Ok(session_id), "",
                                 Ok(Unit))]
    /\ UNCHANGED <<rad_vars, session>>

\* A call of App::lock_wallet.
LockWallet(session_id, wallet_id) ==
    /\ Running
    /\ LET r == lock_wallet(app, session_id, wallet_id) IN
       app' = [r.app EXCEPT
                 !.last = Called("lock_wallet", Ok(session_id), wallet_id,
                                 r.result)]
    /\ UNCHANGED <<rad_vars, session>>

\* A call of App::next_subscription_id.
NextSubscriptionId(session_id) ==
    /\ Running
    /\ app' = [app EXCEPT
                 !.last = Called("next_subscription_id", Ok(session_id), "",
                                 next_subscription_id(app, session_id))]
    /\ UNCHANGED <<rad_vars, session>>

\* A call of App::shutdown_request.
ShutdownRequest(session_id) ==
    /\ Running
    /\ Len(app.worker) < MaxPending
    /\ LET r == shutdown_request(app, session_id) IN
       app' = [r.app EXCEPT
                 !.last = Called("shutdown_request", session_id, "",
                                 r.result)]
    /\ UNCHANGED <<rad_vars, session>>

\* The worker answers FlushDb.
FlushAnswer(res) ==
    /\ Running
    /\ app.worker # <<>>
    /\ app' = [stop_then(app, res) EXCEPT
                 !.last = Called("stop_then", None, "",
                                 IF res = "Ok(Ok)" THEN Ok(Unit)
                                 ELSE Err(res))]
    /\ UNCHANGED <<rad_vars, session>>

\* A call of App::send_transaction.
SendTransaction(session_id, wallet_id) ==
    /\ Running
    /\ app.sent + Len(app.futures) < MaxTransactions
    /\ LET r == send_transaction(app, session_id, wallet_id) IN
       app' = [r.app EXCEPT
                 !.last = Called("send_transaction", Ok(session_id),
                                 wallet_id, r.result)]
    /\ UNCHANGED <<rad_vars, session>>

\* The context of the actor polls the i-th future of send_transaction.
PollSendTransaction(i) ==
    /\ Running
    /\ i \in 1..Len(app.futures)
    /\ LET r == send_transaction_poll(app, i) IN
       app' = [r.app EXCEPT
                 !.last = Called("send_transaction_poll", None, "",
                                 [lookup |-> app.futures[i],
                                  result |-> r.result])]
    /\ UNCHANGED <<rad_vars, session>>

\* The i-th future of send_transaction is dropped without a poll.
DropSendTransaction(i) ==
    /\ Running
    /\ i \in 1..Len(app.futures)
    /\ app' = [app EXCEPT
                 !.futures = Without(app.futures, i),
                 !.last = Called("send_transaction_drop", None, "", None)]
    /\ UNCHANGED <<rad_vars, session>>

\* The node answers the i-th inventory request.
InventoryAnswer(i, res, added) ==
    /\ Running
    /\ i \in 1..Len(app.node)
    /\ LET r == send_transaction_then(app, i, res, added) IN
       app' = [r.app EXCEPT
                 !.last = Called("send_transaction_then", None,
                                 app.node[i].wallet,
                                 [answer |-> res, result |-> r.result])]
    /\ UNCHANGED <<rad_vars, session>>

WalletNext ==
    \/ StartServer
    \/ \E session_id \in SessionIds, wallet_id \in WalletIds :
          CreateSession(session_id, wallet_id)
    \/ \E session_id \in SessionIds : CloseSession(session_id)
    \/ \E session_id \in SessionIds, wallet_id \in WalletIds :
          LockWallet(session_id, wallet_id)
    \/ \E session_id \in SessionIds : NextSubscriptionId(session_id)
    \/ \E session_id \in {None} \cup {Ok(id) : id \in SessionIds} :
          ShutdownRequest(session_id)
    \/ \E res \in Answers : FlushAnswer(res)

WalletSpec == WalletInit /\ [][WalletNext]_vars

\* Sending transactions: one session, s1, is opened and closed and has its
\* wallets locked, while transactions are sent for it and for s2, which is
\* never open.
TransactionNext ==
    \/ \E wallet_id \in WalletIds : CreateSession("s1", wallet_id)
    \/ CloseSession("s1")
    \/ \E wallet_id \in WalletIds : LockWallet("s1", wallet_id)
    \/ \E session_id \in SessionIds, wallet_id \in WalletIds :
          SendTransaction(session_id, wallet_id)
    \/ \E i \in 1..MaxTransactions : PollSendTransaction(i)
    \/ \E i \in 1..MaxTransactions : DropSendTransaction(i)
    \/ \E i \in 1..MaxTransactions, res \in Answers, added \in BOOLEAN :
          InventoryAnswer(i, res, added)

TransactionSpec == WalletInit /\ [][TransactionNext]_vars

\* The application as a call left it, without the record of the call.
AppNow == [app EXCEPT !.last = NoLast]

\* C25: next_subscription_id answers an id only for a session that is open
\* in the state, and the id is that session's own id; for any other session
\* (never created, or closed) it answers SessionNotFound.  It changes
\* nothing.
C25_SubscriptionIdOnlyForActiveSession ==
    app.last.op = "next_subscription_id" =>
        LET session_id == app.last.session_id.v
            before == app.last.app_before IN
        /\ AppNow = before
        /\ IF session_id \in DOMAIN before.state.sessions
           THEN /\ IsOk(app.last.result)
                /\ app.last.result.v = String(session_id)
           ELSE app.last.result = Err(SessionNotFound)

\* Session s1 is given its own id while s2 is open too.
C25_Witness ==
    /\ app.last.op = "next_subscription_id"
    /\ app.last.session_id = Ok("s1")
    /\ app.last.result = Ok(String("s1"))
    /\ "s2" \in DOMAIN app.state.sessions

\* stop has been started by the call made last: the server is taken and one
\* FlushDb more awaits the worker.
StopStarted ==
    /\ app.server = "None"
    /\ app.worker = Append(app.last.app_before.worker, "FlushDb")

\* C26: shutdown_request starts stop and answers Ok when the session given
\* is open in the state (the lookup of its wallets succeeds, even when
\* lock_wallet has left it none), or when no session is given and none is
\* open; for a session that is not open it answers the error of the lookup,
\* and for no session with sessions open SessionsStillOpen, and in both
\* cases nothing changes: no FlushDb is sent.
C26_ShutdownOnlyWhenAllowed ==
    app.last.op = "shutdown_request" =>
        LET session_id == app.last.session_id
            before == app.last.app_before
            open == DOMAIN before.state.sessions IN
        IF session_id # None
        THEN IF session_id.v \in open
             THEN app.last.result = Ok(Unit) /\ StopStarted
             ELSE /\ app.last.result =
                       get_wallets_by_session(before.state, session_id.v)
                  /\ IsErr(app.last.result)
                  /\ AppNow = before
        ELSE IF open = {}
             THEN app.last.result = Ok(Unit) /\ StopStarted
             ELSE /\ app.last.result = Err(SessionsStillOpen)
                  /\ AppNow = before

\* A shutdown without session is refused while s1 is open, and the running
\* server is kept.
C26_Witness ==
    /\ app.last.op = "shutdown_request"
    /\ app.last.session_id = None
    /\ app.last.result = Err(SessionsStillOpen)
    /\ "s1" \in DOMAIN app.state.sessions
    /\ app.server = "Some"
    /\ app.worker = <<>>

\* C27: the system is stopped only by the worker's successful answer to
\* FlushDb: a stopped system has that answer as its last event, the call of
\* stop itself leaves the system running, and so does an answer that is a
\* failed request or an error.
C27_SystemStopsAfterFlush ==
    /\ app.system = "stopped" =>
          /\ app.last.op = "stop_then"
          /\ app.last.result = Ok(Unit)
          /\ app.last.app_before.worker # <<>>
          /\ Head(app.last.app_before.worker) = "FlushDb"
    /\ app.last.op = "shutdown_request" => app.system = "running"
    /\ (app.last.op = "stop_then" /\ IsErr(app.last.result)) =>
          app.system = "running"

\* A shutdown for session s1 was answered by the worker, and the system is
\* stopped.
C27_Witness ==
    /\ app.system = "stopped"
    /\ app.last.op = "stop_then"
    /\ app.server = "None"
    /\ "s1" \in DOMAIN app.state.sessions

\* C28: a wallet never has more local movements than transactions the node
\* accepted.  The call of send_transaction makes the lookup and sends
\* nothing; when its future is polled, a failed lookup answers its error
\* with nothing sent, and otherwise the inventory request is sent and no
\* movement added yet; a future dropped sends nothing; a node answer that
\* is not a success adds no movement; after a success the movement is
\* added, or, when adding fails, the answer is an Internal error with the
\* transaction broadcast all the same.
C28_MovementAfterBroadcast ==
    /\ \A w \in WalletIds : app.movements[w] <= app.broadcast[w]
    /\ app.last.op = "send_transaction" =>
          LET before == app.last.app_before IN
          /\ app.futures =
                Append(before.futures,
                       get_wallet_by_session_and_id(
                           before.state, app.last.session_id.v,
                           app.last.wallet))
          /\ [AppNow EXCEPT !.futures = before.futures] = before
    /\ app.last.op = "send_transaction_poll" =>
          LET before == app.last.app_before
              lookup == app.last.result.lookup IN
          /\ app.movements = before.movements
          /\ app.broadcast = before.broadcast
          /\ IF IsErr(lookup)
             THEN /\ app.last.result.result = lookup
                  /\ app.node = before.node
             ELSE app.node = Append(before.node,
                                    [method |-> "inventory",
                                     wallet |-> lookup.v])
    /\ app.last.op = "send_transaction_drop" =>
          [AppNow EXCEPT !.futures = app.last.app_before.futures]
              = app.last.app_before
    /\ app.last.op = "send_transaction_then" =>
          LET before == app.last.app_before
              w == app.last.wallet
              r == app.last.result IN
          /\ \A o \in WalletIds \ {w} :
                app.movements[o] = before.movements[o]
          /\ IF r.answer # "Ok(Ok)"
             THEN /\ IsErr(r.result)
                  /\ app.movements = before.movements
                  /\ app.broadcast = before.broadcast
             ELSE /\ app.broadcast[w] = before.broadcast[w] + 1
                  /\ IF IsOk(r.result)
                     THEN app.movements[w] = before.movements[w] + 1
                     ELSE /\ r.result.err.error = "Internal"
                          /\ app.movements = before.movements

\* The node accepted a transaction of wallet w1 and adding the movement
\* failed: an Internal error, one broadcast, no movement.
C28_Witness ==
    /\ app.last.op = "send_transaction_then"
    /\ app.last.wallet = "w1"
    /\ app.last.result.answer = "Ok(Ok)"
    /\ app.last.result.result = Err(Internal("add_local_movement"))
    /\ app.broadcast["w1"] = 1
    /\ app.movements["w1"] = 0

\* C34: a call of reduce leaves the context, with its active feature flags,
\* and the input array as they were, whether it answers a value or an error.
C34_ReduceOnlyReadsContext ==
    [][(call = NoCall /\ call'.op = "reduce") =>
          (context' = context /\ input' = input)]_vars

\* AverageMedian, which asks the context for wip0017, has answered a value
\* for three elements with the flag active.
C34_Witness ==
    /\ call.op = "reduce"
    /\ call.reducer_code = AverageMedian
    /\ context.active_wips = SomeActiveWips({"wip0017"})
    /\ Len(input) = 3
    /\ IsOk(output)
====
